---- MODULE Spec2Model ----
(***************************************************************************)
(* A model of the rust-simpledb storage and execution core: values, the    *)
(* page/slot layer, the disk manager, the buffer pool, tables, databases,  *)
(* the storage engine and the SELECT path of the executor.                 *)
(*                                                                         *)
(* Conventions.                                                            *)
(*   Option<T>   : <<>> is None, <<x>> is Some(x).                         *)
(*   Result<T>   : <<"Ok", x>> or <<"Err", kind>>, kind the DBError        *)
(*                 variant.                                                *)
(*   Value       : a tagged pair, <<"Int", i>>, <<"Float", h>> (h counts   *)
(*                 halves, so <<"Float", 3>> is 1.5), <<"String", n>> (the *)
(*                 string made of n letters 'a', so that length, equality  *)
(*                 and lexicographic order are those of n),                *)
(*                 <<"Boolean", b>>, <<"Null", 0>>.                        *)
(*   Files       : base_dir maps a database name to its directory, the     *)
(*                 pages of data.db and the optional <name>.meta blob.     *)
(*                 A page image is the bincode token stream of the slot    *)
(*                 array; the zero padding up to PAGE_SIZE is implicit.    *)
(***************************************************************************)
EXTENDS Integers, Sequences, FiniteSets, TLC

VARIABLES
    storage,    \* the StorageEngine: databases and current_database
    base_dir,   \* the files under base_dir
    pc,         \* "open" while a StorageEngine value is alive, else "dropped"
    last,       \* the last call made on the engine, with what it returned
    steps,      \* number of calls made so far
    live,       \* history: record id -> values, for ids handed out by insert
                \* and not since targeted by a delete or an update
    n_ins,      \* history: successful inserts per table
    n_del,      \* history: successful deletes per table
    memo,       \* history: plan -> result of its last execution since the
                \* last insert, update or delete
    snapshot,   \* history: the tables as they were at the last save
    cur_page,   \* the page of the page-level operations
    fn_in,      \* input of the pure function under check
    fn_out,     \* its output
    buffer_manager, \* the BufferManager of the buffer-level operations
    access      \* history: page ids by their last successful get_page,
                \* get_page_mut or create_page, oldest first

vars == <<storage, base_dir, pc, last, steps, live, n_ins, n_del, memo,
          snapshot, cur_page, fn_in, fn_out, buffer_manager, access>>

(***************************************************************************)
(* Bounds of the model.                                                    *)
(***************************************************************************)
MaxSteps == 6
MaxWideSteps == 8
MaxPersistSteps == 6
MaxPageSteps == 4
PoolPages == 2
MaxSortLen == 3
MaxStmtSteps == 5
MaxDbSteps == 6
MaxBufSteps == 6
MaxFileSteps == 6
MaxExecSteps == 4
MaxScriptLen == 3
MaxScriptSteps == 2
MaxShutSteps == 6
MaxCatSteps == 5
MaxPreSteps == 4
MaxPassSteps == 5
MaxPlaceSteps == 6
MaxOrderSteps == 5
MaxOptions == 3
MaxLruSteps == 7
MaxReopenSteps == 6
IntBits == 4

(***************************************************************************)
(* Generic helpers.                                                        *)
(***************************************************************************)
None == <<>>

Some(x) == <<x>>

IsSome(o) == o # <<>>

Ok(x) == <<"Ok", x>>

Err(kind) == <<"Err", kind>>

IsOk(r) == r[1] = "Ok"

Unit == "unit"

Max(a, b) == IF a >= b THEN a ELSE b

RECURSIVE SumSeq(_)
SumSeq(s) == IF s = <<>> THEN 0 ELSE Head(s) + SumSeq(Tail(s))

RECURSIVE Flatten(_)
Flatten(ss) == IF ss = <<>> THEN <<>> ELSE Head(ss) \o Flatten(Tail(ss))

Range(s) == {s[i] : i \in DOMAIN s}

MapRemove(f, k) == [x \in DOMAIN f \ {k} |-> f[x]]

MapPut(f, k, v) == [x \in DOMAIN f \cup {k} |-> IF x = k THEN v ELSE f[x]]

\* Vec::retain(|x| x != v)
\* let x = ...; Then(x): binds a value that is computed once.
Bind(x, Then(_)) == Then(x)

Retain(s, v) == SelectSeq(s, LAMBDA x : x # v)

\* Iterator::position
RECURSIVE PositionFrom(_, _, _)
PositionFrom(s, P(_), i) ==
    IF i > Len(s) THEN 0
    ELSE IF P(s[i]) THEN i
    ELSE PositionFrom(s, P, i + 1)

(***************************************************************************)
(* Value (storage/table/value.rs).                                         *)
(***************************************************************************)
Value_Null == <<"Null", 0>>

Value_Int(i) == <<"Int", i>>

Value_Float(h) == <<"Float", h>>

Value_String(n) == <<"String", n>>

Value_Boolean(b) == <<"Boolean", b>>

Tag(v) == v[1]

\* Operands of two numeric values on a common scale (halves): `a as f64`.
Halves(v) == IF Tag(v) = "Int" THEN 2 * v[2] ELSE v[2]

IsNumeric(v) == Tag(v) \in {"Int", "Float"}

Value_eq(a, b) ==
    IF Tag(a) = "Null" \/ Tag(b) = "Null" THEN Ok(FALSE)
    ELSE IF IsNumeric(a) /\ IsNumeric(b) THEN Ok(Halves(a) = Halves(b))
    ELSE IF Tag(a) = "String" /\ Tag(b) = "String" THEN Ok(a[2] = b[2])
    ELSE IF Tag(a) = "Boolean" /\ Tag(b) = "Boolean" THEN Ok(a[2] = b[2])
    ELSE Err("Execution")

Value_ne(a, b) ==
    LET r == Value_eq(a, b) IN IF IsOk(r) THEN Ok(~r[2]) ELSE r

Value_lt(a, b) ==
    IF Tag(a) = "Null" \/ Tag(b) = "Null" THEN Ok(FALSE)
    ELSE IF IsNumeric(a) /\ IsNumeric(b) THEN Ok(Halves(a) < Halves(b))
    ELSE IF Tag(a) = "String" /\ Tag(b) = "String" THEN Ok(a[2] < b[2])
    ELSE IF Tag(a) = "Boolean" /\ Tag(b) = "Boolean" THEN Ok(~a[2] /\ b[2])
    ELSE Err("Execution")

Value_le(a, b) ==
    IF Tag(a) = "Null" \/ Tag(b) = "Null" THEN Ok(FALSE)
    ELSE IF IsNumeric(a) /\ IsNumeric(b) THEN Ok(Halves(a) <= Halves(b))
    ELSE IF Tag(a) = "String" /\ Tag(b) = "String" THEN Ok(a[2] <= b[2])
    ELSE IF Tag(a) = "Boolean" /\ Tag(b) = "Boolean" THEN Ok(~a[2] \/ b[2])
    ELSE Err("Execution")

Value_gt(a, b) == Value_lt(b, a)

Value_ge(a, b) == Value_le(b, a)

Compare(op, a, b) ==
    CASE op = "eq" -> Value_eq(a, b)
      [] op = "ne" -> Value_ne(a, b)
      [] op = "lt" -> Value_lt(a, b)
      [] op = "le" -> Value_le(a, b)
      [] op = "gt" -> Value_gt(a, b)
      [] op = "ge" -> Value_ge(a, b)

(***************************************************************************)
(* The bincode image of a page (storage/io/page.rs, serialize/from_data).  *)
(* Sizes are byte counts of bincode's standard configuration; the image is *)
(* kept as the stream of its integers (lengths, tags, payloads).           *)
(***************************************************************************)
PAGE_SIZE == 32768

VarintSize(n) == IF n < 251 THEN 1 ELSE IF n < 65536 THEN 3 ELSE 5

ZigZag(i) == IF i >= 0 THEN 2 * i ELSE (-2 * i) - 1

UnZigZag(z) == IF z % 2 = 0 THEN z \div 2 ELSE -((z + 1) \div 2)

ValueSize(v) ==
    CASE Tag(v) = "Int" -> 1 + VarintSize(ZigZag(v[2]))
      [] Tag(v) = "Float" -> 1 + 8
      [] Tag(v) = "String" -> 1 + VarintSize(v[2]) + v[2]
      [] Tag(v) = "Boolean" -> 1 + 1
      [] Tag(v) = "Null" -> 1

\* Page::estimate_record_size: the encoded length of one Vec<Value>.
estimate_record_size(record) ==
    VarintSize(Len(record)) + SumSeq([i \in DOMAIN record |-> ValueSize(record[i])])

\* Length of bincode::encode_to_vec(&records): Vec<Option<Vec<Value>>>.
SerializedSize(records) ==
    VarintSize(Len(records))
    + SumSeq([i \in DOMAIN records |->
                 IF IsSome(records[i]) THEN 1 + estimate_record_size(records[i][1]) ELSE 1])

EncodeValue(v) ==
    CASE Tag(v) = "Int" -> <<0, ZigZag(v[2])>>
      [] Tag(v) = "Float" -> <<1, v[2]>>
      [] Tag(v) = "String" -> <<2, v[2]>>
      [] Tag(v) = "Boolean" -> <<3, IF v[2] THEN 1 ELSE 0>>
      [] Tag(v) = "Null" -> <<4>>

EncodeRow(row) == <<Len(row)>> \o Flatten([i \in DOMAIN row |-> EncodeValue(row[i])])

\* Page::serialize
Page_serialize(records) ==
    <<Len(records)>>
    \o Flatten([i \in DOMAIN records |->
                   IF IsSome(records[i]) THEN <<1>> \o EncodeRow(records[i][1]) ELSE <<0>>])

\* A read at position i of an image; past the written bytes the page is zero.
Tok(img, i) == IF i <= Len(img) THEN img[i] ELSE 0

\* Decoders return <<decoded value, next position>>.
DecodeValue(img, i) ==
    LET t == Tok(img, i) IN
    CASE t = 0 -> <<Value_Int(UnZigZag(Tok(img, i + 1))), i + 2>>
      [] t = 1 -> <<Value_Float(Tok(img, i + 1)), i + 2>>
      [] t = 2 -> <<Value_String(Tok(img, i + 1)), i + 2>>
      [] t = 3 -> <<Value_Boolean(Tok(img, i + 1) = 1), i + 2>>
      [] OTHER -> <<Value_Null, i + 1>>

RECURSIVE DecodeValues(_, _, _)
DecodeValues(img, i, n) ==
    IF n = 0 THEN <<<<>>, i>>
    ELSE LET v == DecodeValue(img, i)
             rest == DecodeValues(img, v[2], n - 1)
         IN <<<<v[1]>> \o rest[1], rest[2]>>

RECURSIVE DecodeSlots(_, _, _)
DecodeSlots(img, i, n) ==
    IF n = 0 THEN <<<<>>, i>>
    ELSE IF Tok(img, i) = 0
         THEN LET rest == DecodeSlots(img, i + 1, n - 1)
              IN <<<<None>> \o rest[1], rest[2]>>
         ELSE LET row == DecodeValues(img, i + 2, Tok(img, i + 1))
                  rest == DecodeSlots(img, row[2], n - 1)
              IN <<<<Some(row[1])>> \o rest[1], rest[2]>>

\* Page::from_data: the slot array of an image.
Page_from_data(id, img) ==
    [id |-> id, records |-> DecodeSlots(img, 2, Tok(img, 1))[1], is_dirty |-> FALSE]

\* Page::new
Page_new(id) == [id |-> id, records |-> <<>>, is_dirty |-> FALSE]

(***************************************************************************)
(* Page (storage/io/page.rs).  A page is [id, records, is_dirty]; slots    *)
(* are numbered from 0 as in the code, records[slot + 1] is the slot.      *)
(* Operations on a page return [page |-> the page afterwards, res |-> ..]. *)
(***************************************************************************)
RecordId_new(page_id, slot) == [page_id |-> page_id, slot |-> slot]

Record_with_id(id, data) == [id |-> id, data |-> data]

\* Page::serialize together with the length of the byte vector.
Page_data(page) ==
    [bytes |-> Page_serialize(page.records), len |-> SerializedSize(page.records)]

Page_get_record_count(page) ==
    Cardinality({i \in DOMAIN page.records : IsSome(page.records[i])})

Page_can_fit_record(page, record) ==
    LET record_size == estimate_record_size(record)
        estimated_overhead == 64
        safety_margin == 2048
        active_records == Page_get_record_count(page)
        estimated_current_size == active_records * 100 + 1024
        estimated_new_size == estimated_current_size + record_size + estimated_overhead
    IN IF estimated_new_size > PAGE_SIZE - safety_margin
       THEN LET current_size == SerializedSize(page.records)
                new_size == current_size + record_size + estimated_overhead
            IN new_size <= PAGE_SIZE - safety_margin
       ELSE TRUE

\* records.iter().position(|r| r.is_none()), as a slot number; -1 if none.
FirstVacantSlot(records) == PositionFrom(records, LAMBDA r : r = None, 1) - 1

\* An insert that always extends the slot array.
InsertSlot_append(records) == Len(records)

InsertSlot(records) ==
    IF FirstVacantSlot(records) >= 0 THEN FirstVacantSlot(records) ELSE Len(records)

Page_insert_record(page, raw_record) ==
    IF ~Page_can_fit_record(page, raw_record)
    THEN [page |-> page, res |-> Err("IO")]
    ELSE LET slot == InsertSlot(page.records)
             grown == IF slot = Len(page.records)
                      THEN Append(page.records, None) ELSE page.records
         IN [page |-> [page EXCEPT !.records = [grown EXCEPT ![slot + 1] = Some(raw_record)],
                                   !.is_dirty = TRUE],
             res |-> Ok(RecordId_new(page.id, slot))]

\* A delete that marks the page dirty before it looks at the record id.
Page_delete_record_dirty_first(page, id) ==
    IF id.page_id # page.id THEN [page |-> [page EXCEPT !.is_dirty = TRUE], res |-> Err("IO")]
    ELSE IF id.slot >= Len(page.records)
    THEN [page |-> [page EXCEPT !.is_dirty = TRUE], res |-> Err("NotFound")]
    ELSE IF page.records[id.slot + 1] = None
    THEN [page |-> [page EXCEPT !.is_dirty = TRUE], res |-> Err("NotFound")]
    ELSE [page |-> [page EXCEPT !.records[id.slot + 1] = None, !.is_dirty = TRUE],
          res |-> Ok(Unit)]

Page_delete_record(page, id) ==
    IF id.page_id # page.id THEN [page |-> page, res |-> Err("IO")]
    ELSE IF id.slot >= Len(page.records) THEN [page |-> page, res |-> Err("NotFound")]
    ELSE IF page.records[id.slot + 1] = None THEN [page |-> page, res |-> Err("NotFound")]
    ELSE [page |-> [page EXCEPT !.records[id.slot + 1] = None, !.is_dirty = TRUE],
          res |-> Ok(Unit)]

Page_get_record(page, id) ==
    IF id.page_id # page.id THEN Err("IO")
    ELSE IF id.slot >= Len(page.records) THEN Err("NotFound")
    ELSE IF page.records[id.slot + 1] = None THEN Err("NotFound")
    ELSE Ok(Record_with_id(id, page.records[id.slot + 1][1]))

\* Page::clear_dirty
Page_clear_dirty(page) == [page EXCEPT !.is_dirty = FALSE]

\* A replace that writes the first slot whatever the record id.
ReplaceSlot_first(id) == 0

\* The slot replace_record writes.
ReplaceSlot(id) == id.slot

Page_replace_record(page, id, new_raw_record) ==
    IF id.page_id # page.id THEN [page |-> page, res |-> Err("IO")]
    ELSE IF id.slot >= Len(page.records) \/ page.records[id.slot + 1] = None
    THEN [page |-> page, res |-> Err("NotFound")]
    ELSE LET test_records == [page.records EXCEPT ![id.slot + 1] = Some(new_raw_record)]
             new_size == SerializedSize(test_records)
             max_allowed_size == PAGE_SIZE - 1024
         IN IF new_size > max_allowed_size
            THEN [page |-> page, res |-> Err("IO")]
            ELSE [page |-> [page EXCEPT !.records[ReplaceSlot(id) + 1] = Some(new_raw_record),
                                        !.is_dirty = TRUE],
                  res |-> Ok(Unit)]

\* The loop of update_fields over updates: Ok(updated record) or the error.
RECURSIVE ApplyUpdates(_, _)
ApplyUpdates(updated_record, updates) ==
    IF updates = <<>> THEN Ok(updated_record)
    ELSE IF Head(updates)[1] >= Len(updated_record) THEN Err("IO")
    ELSE ApplyUpdates([updated_record EXCEPT ![Head(updates)[1] + 1] = Head(updates)[2]],
                      Tail(updates))

\* An update_fields that assigns in place: the assignments made before a
\* field index out of range stay in the record.
Page_update_fields_in_place(page, id, updates) ==
    IF id.page_id # page.id THEN [page |-> page, res |-> Err("IO")]
    ELSE IF id.slot >= Len(page.records) THEN [page |-> page, res |-> Err("NotFound")]
    ELSE IF page.records[id.slot + 1] = None THEN [page |-> page, res |-> Err("NotFound")]
    ELSE LET record == page.records[id.slot + 1][1]
             done == SelectSeq(updates, LAMBDA u : u[1] < Len(record))
         IN IF Len(done) < Len(updates)
            THEN [page |-> [page EXCEPT !.records[id.slot + 1] =
                                            Some(ApplyUpdates(record, <<Head(updates)>>)[2]),
                                        !.is_dirty = TRUE],
                  res |-> Err("IO")]
            ELSE [page |-> [page EXCEPT !.records[id.slot + 1] =
                                            Some(ApplyUpdates(record, updates)[2]),
                                        !.is_dirty = TRUE],
                  res |-> Ok(Unit)]

Page_update_fields(page, id, updates) ==
    IF id.page_id # page.id THEN [page |-> page, res |-> Err("IO")]
    ELSE IF id.slot >= Len(page.records) THEN [page |-> page, res |-> Err("NotFound")]
    ELSE IF page.records[id.slot + 1] = None THEN [page |-> page, res |-> Err("NotFound")]
    ELSE LET updated_record == ApplyUpdates(page.records[id.slot + 1][1], updates)
         IN IF ~IsOk(updated_record) THEN [page |-> page, res |-> updated_record]
            ELSE LET test_records == [page.records EXCEPT ![id.slot + 1] = Some(updated_record[2])]
                     new_size == SerializedSize(test_records)
                 IN IF new_size > PAGE_SIZE
                    THEN [page |-> page, res |-> Err("IO")]
                    ELSE [page |-> [page EXCEPT !.records = test_records, !.is_dirty = TRUE],
                          res |-> Ok(Unit)]

Page_update_field(page, id, field_index, new_value) ==
    IF id.page_id # page.id THEN [page |-> page, res |-> Err("IO")]
    ELSE IF id.slot >= Len(page.records) THEN [page |-> page, res |-> Err("NotFound")]
    ELSE IF page.records[id.slot + 1] = None THEN [page |-> page, res |-> Err("NotFound")]
    ELSE LET record == page.records[id.slot + 1][1]
         IN IF field_index >= Len(record) THEN [page |-> page, res |-> Err("IO")]
            ELSE LET test_record == [record EXCEPT ![field_index + 1] = new_value]
                     test_records == [page.records EXCEPT ![id.slot + 1] = Some(test_record)]
                     new_size == SerializedSize(test_records)
                 IN IF new_size > PAGE_SIZE
                    THEN [page |-> page, res |-> Err("IO")]
                    ELSE [page |-> [page EXCEPT !.records = test_records, !.is_dirty = TRUE],
                          res |-> Ok(Unit)]

\* Page::iter_records: the occupied slots in slot order.
Page_iter_records(page) ==
    LET occupied == SelectSeq([i \in DOMAIN page.records |-> i],
                              LAMBDA i : IsSome(page.records[i]))
    IN [k \in DOMAIN occupied |->
           Record_with_id(RecordId_new(page.id, occupied[k] - 1), page.records[occupied[k]][1])]

(***************************************************************************)
(* DiskManager (storage/io/disk_manager.rs).  file is the content of       *)
(* data.db as a sequence of page images, page p at file[p + 1].            *)
(***************************************************************************)
\* OpenOptions .read(true).write(true).create(true).truncate(true): the
\* content the file has once it is open.
OpenTruncate(existing) == <<>>

DiskManager_new(existing) ==
    LET file == OpenTruncate(existing)
    IN [file |-> file, next_page_id |-> Len(file)]

DiskManager_read_page(dm, page_id) ==
    IF page_id >= Len(dm.file) THEN Err("NotFound") ELSE Ok(dm.file[page_id + 1])

\* Returns [dm, res].  A write past the end of the file leaves a hole of
\* zero pages.
DiskManager_write_page(dm, page_id, data) ==
    IF data.len > PAGE_SIZE
    THEN [dm |-> dm, res |-> Err("IO")]
    ELSE [dm |-> [dm EXCEPT !.file =
                     IF page_id < Len(dm.file)
                     THEN [dm.file EXCEPT ![page_id + 1] = data.bytes]
                     ELSE dm.file \o [i \in 1..(page_id - Len(dm.file)) |-> <<>>]
                          \o <<data.bytes>>],
          res |-> Ok(Unit)]

DiskManager_allocate_page(dm) ==
    LET page_id == dm.next_page_id
        empty_page == [bytes |-> <<>>, len |-> PAGE_SIZE]
    IN Bind(DiskManager_write_page([dm EXCEPT !.next_page_id = page_id + 1],
                                   page_id, empty_page),
            LAMBDA w : [dm |-> w.dm, res |-> IF IsOk(w.res) THEN Ok(page_id) ELSE w.res])

(***************************************************************************)
(* BufferManager (storage/io/buffer_manager.rs).  pages is a function from *)
(* the cached page ids to pages.  Operations return [bm, res].             *)
(***************************************************************************)
\* The pool holds 1024 pages in the source; the model scales it to
\* PoolPages so that evictions happen within the bounds.
BUFFER_POOL_SIZE == PoolPages

BufferManager_new(existing) ==
    [disk_manager |-> DiskManager_new(existing),
     pages |-> <<>>,
     lru_list |-> <<>>,
     pinned_pages |-> {}]

BufferManager_update_lru(bm, page_id) ==
    [bm EXCEPT !.lru_list = Append(Retain(bm.lru_list, page_id), page_id)]

\* flush_page clearing the dirty flag without writing the page.
BufferManager_flush_page_no_write(bm, page_id) ==
    IF page_id \in DOMAIN bm.pages /\ bm.pages[page_id].is_dirty
    THEN [bm |-> [bm EXCEPT !.pages[page_id].is_dirty = FALSE], res |-> Ok(Unit)]
    ELSE [bm |-> bm, res |-> Ok(Unit)]

BufferManager_flush_page(bm, page_id) ==
    IF page_id \in DOMAIN bm.pages /\ bm.pages[page_id].is_dirty
    THEN Bind(DiskManager_write_page(bm.disk_manager, page_id, Page_data(bm.pages[page_id])),
              LAMBDA w :
                  IF IsOk(w.res)
                  THEN [bm |-> [bm EXCEPT !.disk_manager = w.dm,
                                          !.pages[page_id].is_dirty = FALSE],
                        res |-> Ok(Unit)]
                  ELSE [bm |-> bm, res |-> w.res])
    ELSE [bm |-> bm, res |-> Ok(Unit)]

\* evict_page choosing the head of lru_list whether it is pinned or not.
PageToEvict_ignore_pins(bm) ==
    IF bm.lru_list = <<>> THEN None ELSE Some(Head(bm.lru_list))

\* The victim of an eviction: the first page of lru_list that is not
\* pinned, as an Option.
PageToEvict(bm) ==
    Bind(PositionFrom(bm.lru_list, LAMBDA id : id \notin bm.pinned_pages, 1),
         LAMBDA p : IF p = 0 THEN None ELSE Some(bm.lru_list[p]))

\* evict_page reporting success when it finds no page to evict.
BufferManager_evict_page_lenient(bm) ==
    Bind(PageToEvict(bm), LAMBDA page_to_evict :
        IF IsSome(page_to_evict)
        THEN Bind(BufferManager_flush_page(bm, page_to_evict[1]), LAMBDA f :
                 IF IsOk(f.res)
                 THEN [bm |-> [f.bm EXCEPT !.pages = MapRemove(f.bm.pages, page_to_evict[1]),
                                           !.lru_list = Retain(f.bm.lru_list, page_to_evict[1])],
                       res |-> Ok(Unit)]
                 ELSE f)
        ELSE [bm |-> bm, res |-> Ok(Unit)])

BufferManager_evict_page(bm) ==
    Bind(PageToEvict(bm), LAMBDA page_to_evict :
        IF IsSome(page_to_evict)
        THEN Bind(BufferManager_flush_page(bm, page_to_evict[1]), LAMBDA f :
                 IF IsOk(f.res)
                 THEN [bm |-> [f.bm EXCEPT !.pages = MapRemove(f.bm.pages, page_to_evict[1]),
                                           !.lru_list = Retain(f.bm.lru_list, page_to_evict[1])],
                       res |-> Ok(Unit)]
                 ELSE f)
        ELSE [bm |-> bm, res |-> Err("IO")])

\* load_page reading the page in without making room first.
BufferManager_load_page_unbounded(bm, page_id) ==
    Bind(DiskManager_read_page(bm.disk_manager, page_id), LAMBDA data :
        IF ~IsOk(data) THEN [bm |-> bm, res |-> data]
        ELSE [bm |-> [bm EXCEPT !.pages =
                         MapPut(bm.pages, page_id, Page_from_data(page_id, data[2]))],
              res |-> Ok(Unit)])

BufferManager_load_page(bm, page_id) ==
    Bind(IF Cardinality(DOMAIN bm.pages) >= BUFFER_POOL_SIZE
         THEN BufferManager_evict_page(bm)
         ELSE [bm |-> bm, res |-> Ok(Unit)],
         LAMBDA e :
             IF ~IsOk(e.res) THEN e
             ELSE Bind(DiskManager_read_page(e.bm.disk_manager, page_id), LAMBDA data :
                      IF ~IsOk(data) THEN [bm |-> e.bm, res |-> data]
                      ELSE [bm |-> [e.bm EXCEPT !.pages =
                                       MapPut(e.bm.pages, page_id,
                                              Page_from_data(page_id, data[2]))],
                            res |-> Ok(Unit)]))

\* get_page and get_page_mut differ only in the borrow they return: res is
\* Ok(page_id) and the caller reads or writes bm.pages[page_id].
BufferManager_get_page(bm, page_id) ==
    Bind(IF page_id \notin DOMAIN bm.pages
         THEN BufferManager_load_page(bm, page_id)
         ELSE [bm |-> bm, res |-> Ok(Unit)],
         LAMBDA l :
             IF ~IsOk(l.res) THEN l
             ELSE [bm |-> BufferManager_update_lru(l.bm, page_id), res |-> Ok(page_id)])

BufferManager_get_page_mut(bm, page_id) == BufferManager_get_page(bm, page_id)

BufferManager_create_page(bm) ==
    Bind(DiskManager_allocate_page(bm.disk_manager), LAMBDA a :
        IF ~IsOk(a.res) THEN [bm |-> [bm EXCEPT !.disk_manager = a.dm], res |-> a.res]
        ELSE Bind(IF Cardinality(DOMAIN bm.pages) >= BUFFER_POOL_SIZE
                  THEN BufferManager_evict_page([bm EXCEPT !.disk_manager = a.dm])
                  ELSE [bm |-> [bm EXCEPT !.disk_manager = a.dm], res |-> Ok(Unit)],
                  LAMBDA e :
                      IF ~IsOk(e.res) THEN e
                      ELSE [bm |-> BufferManager_update_lru(
                                       [e.bm EXCEPT !.pages =
                                           MapPut(e.bm.pages, a.res[2], Page_new(a.res[2]))],
                                       a.res[2]),
                            res |-> Ok(a.res[2])]))

BufferManager_pin_page(bm, page_id) ==
    Bind(IF page_id \notin DOMAIN bm.pages
         THEN BufferManager_load_page(bm, page_id)
         ELSE [bm |-> bm, res |-> Ok(Unit)],
         LAMBDA l :
             IF ~IsOk(l.res) THEN l
             ELSE [bm |-> [l.bm EXCEPT !.pinned_pages = @ \cup {page_id}], res |-> Ok(Unit)])

BufferManager_unpin_page(bm, page_id) ==
    [bm EXCEPT !.pinned_pages = @ \ {page_id}]

\* The orders in which a HashMap may yield the keys in S.
Orders(S) ==
    {o \in [1..Cardinality(S) -> S] : \A i, j \in 1..Cardinality(S) : o[i] = o[j] => i = j}

RECURSIVE FlushInOrder(_, _)
FlushInOrder(bm, order) ==
    IF order = <<>> THEN [bm |-> bm, res |-> Ok(Unit)]
    ELSE Bind(BufferManager_flush_page(bm, Head(order)), LAMBDA f :
             IF IsOk(f.res) THEN FlushInOrder(f.bm, Tail(order)) ELSE f)

\* flush_all_pages walks pages.keys(), whose order is unspecified, and
\* stops at the first error: the set of possible outcomes.
BufferManager_flush_all_pages(bm) ==
    {FlushInOrder(bm, o) : o \in Orders(DOMAIN bm.pages)}

(***************************************************************************)
(* Table (storage/table.rs, over the pages of storage/io/page.rs).         *)
(* A table is [name, columns, page_ids]; a column definition is            *)
(* [name, data_type, not_null, unique, is_primary]                         *)
(* (storage/table/value.rs).  Operations return [table, bm, res].          *)
(***************************************************************************)
ColumnDef(name, data_type, not_null, unique, is_primary) ==
    [name |-> name, data_type |-> data_type, not_null |-> not_null,
     unique |-> unique, is_primary |-> is_primary]

Table_new(name, columns) == [name |-> name, columns |-> columns, page_ids |-> <<>>]

\* The loop of insert_record over the existing pages.  res is None when
\* every page refused the record, else Some of the result to return.
RECURSIVE TryPages(_, _, _)
TryPages(bm, page_ids, record) ==
    IF page_ids = <<>> THEN [bm |-> bm, res |-> None]
    ELSE Bind(BufferManager_get_page_mut(bm, Head(page_ids)), LAMBDA g :
             IF ~IsOk(g.res) THEN [bm |-> g.bm, res |-> Some(g.res)]
             ELSE Bind(Page_insert_record(g.bm.pages[Head(page_ids)], record), LAMBDA i :
                      IF IsOk(i.res)
                      THEN [bm |-> [g.bm EXCEPT !.pages[Head(page_ids)] = i.page],
                            res |-> Some(i.res)]
                      ELSE TryPages(g.bm, Tail(page_ids), record)))

Table_insert_record(table, bm, values) ==
    IF Len(values) # Len(table.columns)
    THEN [table |-> table, bm |-> bm, res |-> Err("Schema")]
    ELSE Bind(TryPages(bm, table.page_ids, values), LAMBDA t :
        IF IsSome(t.res) THEN [table |-> table, bm |-> t.bm, res |-> t.res[1]]
        ELSE Bind(BufferManager_create_page(t.bm), LAMBDA c :
            IF ~IsOk(c.res) THEN [table |-> table, bm |-> c.bm, res |-> c.res]
            ELSE LET new_page_id == c.res[2]
                     table1 == [table EXCEPT !.page_ids = Append(@, new_page_id)]
                 IN Bind(BufferManager_get_page_mut(c.bm, new_page_id), LAMBDA g :
                    IF ~IsOk(g.res) THEN [table |-> table1, bm |-> g.bm, res |-> g.res]
                    ELSE Bind(Page_insert_record(g.bm.pages[new_page_id], values), LAMBDA i :
                             [table |-> table1,
                              bm |-> [g.bm EXCEPT !.pages[new_page_id] = i.page],
                              res |-> i.res]))))

Table_delete_record(table, bm, id) ==
    IF id.page_id \notin Range(table.page_ids)
    THEN [table |-> table, bm |-> bm, res |-> Err("NotFound")]
    ELSE Bind(BufferManager_get_page_mut(bm, id.page_id), LAMBDA g :
             IF ~IsOk(g.res) THEN [table |-> table, bm |-> g.bm, res |-> g.res]
             ELSE Bind(Page_delete_record(g.bm.pages[id.page_id], id), LAMBDA d :
                      [table |-> table,
                       bm |-> [g.bm EXCEPT !.pages[id.page_id] = d.page],
                       res |-> d.res]))

ColumnIndex(columns, col_name) == PositionFrom(columns, LAMBDA col : col.name = col_name, 1)

TypeMatches(col_def, new_value) ==
    \/ col_def.data_type[1] = "Int" /\ Tag(new_value) = "Int"
    \/ col_def.data_type[1] = "Varchar" /\ Tag(new_value) = "String"
    \/ Tag(new_value) = "Null" /\ ~col_def.not_null

\* The loop of update_record over set_pairs: Ok(new values) or the error.
RECURSIVE ApplySetPairs(_, _, _)
ApplySetPairs(columns, new_values, set_pairs) ==
    IF set_pairs = <<>> THEN Ok(new_values)
    ELSE Bind(ColumnIndex(columns, Head(set_pairs)[1]), LAMBDA col_index :
             IF col_index = 0 THEN Err("Schema")
             ELSE IF ~TypeMatches(columns[col_index], Head(set_pairs)[2]) THEN Err("Schema")
             ELSE ApplySetPairs(columns,
                                [new_values EXCEPT ![col_index] = Head(set_pairs)[2]],
                                Tail(set_pairs)))

Table_update_record(table, bm, id, set_pairs) ==
    IF id.page_id \notin Range(table.page_ids)
    THEN [table |-> table, bm |-> bm, res |-> Err("NotFound")]
    ELSE Bind(BufferManager_get_page_mut(bm, id.page_id), LAMBDA g :
        IF ~IsOk(g.res) THEN [table |-> table, bm |-> g.bm, res |-> g.res]
        ELSE Bind(Page_get_record(g.bm.pages[id.page_id], id), LAMBDA original_record :
            IF ~IsOk(original_record)
            THEN [table |-> table, bm |-> g.bm, res |-> original_record]
            ELSE Bind(ApplySetPairs(table.columns, original_record[2].data, set_pairs),
                      LAMBDA new_values :
                IF ~IsOk(new_values)
                THEN [table |-> table, bm |-> g.bm, res |-> new_values]
                ELSE Bind(Page_replace_record(g.bm.pages[id.page_id], id, new_values[2]),
                          LAMBDA r :
                              [table |-> table,
                               bm |-> [g.bm EXCEPT !.pages[id.page_id] = r.page],
                               res |-> r.res]))))

Table_get_record(table, bm, id) ==
    IF id.page_id \notin Range(table.page_ids)
    THEN [bm |-> bm, res |-> Err("NotFound")]
    ELSE Bind(BufferManager_get_page(bm, id.page_id), LAMBDA g :
             IF ~IsOk(g.res) THEN g
             ELSE [bm |-> g.bm, res |-> Page_get_record(g.bm.pages[id.page_id], id)])

RECURSIVE ScanPages(_, _, _)
ScanPages(bm, page_ids, records) ==
    IF page_ids = <<>> THEN [bm |-> bm, res |-> Ok(records)]
    ELSE Bind(BufferManager_get_page(bm, Head(page_ids)), LAMBDA g :
             IF ~IsOk(g.res) THEN g
             ELSE ScanPages(g.bm, Tail(page_ids),
                            records \o Page_iter_records(g.bm.pages[Head(page_ids)])))

Table_get_all_records(table, bm) == ScanPages(bm, table.page_ids, <<>>)

Table_load(table, page_ids) == [table EXCEPT !.page_ids = page_ids]

(***************************************************************************)
(* Catalog (storage/catalog.rs): table name -> [columns, page_ids].        *)
(***************************************************************************)
Catalog_new == <<>>

Catalog_add_table_metadata(catalog, name, columns) ==
    IF name \in DOMAIN catalog THEN [catalog |-> catalog, res |-> Err("Schema")]
    ELSE [catalog |-> MapPut(catalog, name, [columns |-> columns, page_ids |-> <<>>]),
          res |-> Ok(Unit)]

Catalog_remove_table_metadata(catalog, name) ==
    IF name \notin DOMAIN catalog THEN [catalog |-> catalog, res |-> Err("NotFound")]
    ELSE [catalog |-> MapRemove(catalog, name), res |-> Ok(Unit)]

Catalog_update_table_page_ids(catalog, table_name, page_ids) ==
    IF table_name \in DOMAIN catalog
    THEN [catalog |-> [catalog EXCEPT ![table_name].page_ids = page_ids], res |-> Ok(Unit)]
    ELSE [catalog |-> catalog, res |-> Err("NotFound")]

\* The bincode image of a catalog: one entry per table of the map, the
\* order of the entries being immaterial to the decoder.
EncodeCatalog(catalog) ==
    {<<n, catalog[n].columns, catalog[n].page_ids>> : n \in DOMAIN catalog}

DecodeCatalog(blob) ==
    [n \in {e[1] : e \in blob} |->
        LET e == CHOOSE x \in blob : x[1] = n
        IN [columns |-> e[2], page_ids |-> e[3]]]

(***************************************************************************)
(* PersistenceManager (storage/io.rs).  A database directory on disk is    *)
(* [data, meta]: the pages of data.db and the optional <name>.meta blob.   *)
(* An absent directory is None.  While the database is open the content of *)
(* data.db is disk_manager.file and db_dir holds the rest of the           *)
(* directory.                                                              *)
(***************************************************************************)
PersistenceManager_new(dir) ==
    [db_dir |-> [meta |-> IF IsSome(dir) THEN dir[1].meta ELSE None],
     buffer_manager |-> BufferManager_new(IF IsSome(dir) THEN dir[1].data ELSE <<>>)]

PersistenceManager_save_metadata(persistence, catalog) ==
    [persistence EXCEPT !.db_dir.meta = Some(EncodeCatalog(catalog))]

PersistenceManager_load_metadata(persistence) ==
    IF persistence.db_dir.meta = None THEN Catalog_new
    ELSE DecodeCatalog(persistence.db_dir.meta[1])

\* What the directory of an open database holds.
DirOf(db) ==
    [data |-> db.persistence.buffer_manager.disk_manager.file,
     meta |-> db.persistence.db_dir.meta]

(***************************************************************************)
(* Database (storage/database.rs): [name, tables, catalog, persistence].   *)
(* Operations return [db, res].                                            *)
(***************************************************************************)
Database_new(name, dir) ==
    Bind(PersistenceManager_new(dir), LAMBDA persistence :
        [name |-> name,
         tables |-> <<>>,
         catalog |-> PersistenceManager_load_metadata(persistence),
         persistence |-> persistence])

Database_create_table(db, name, columns) ==
    IF name \in DOMAIN db.tables THEN [db |-> db, res |-> Err("Schema")]
    ELSE Bind(Catalog_add_table_metadata(db.catalog, name, columns), LAMBDA c :
             [db |-> [db EXCEPT !.tables = MapPut(db.tables, name, Table_new(name, columns)),
                                !.catalog = c.catalog],
              res |-> c.res])

Database_drop_table(db, name) ==
    IF name \notin DOMAIN db.tables THEN [db |-> db, res |-> Err("NotFound")]
    ELSE Bind(Catalog_remove_table_metadata(db.catalog, name), LAMBDA c :
             [db |-> [db EXCEPT !.tables = MapRemove(db.tables, name),
                                !.catalog = c.catalog],
              res |-> c.res])

Database_get_table(db, name) ==
    IF name \in DOMAIN db.tables THEN Ok(db.tables[name]) ELSE Err("NotFound")

Database_load(db) ==
    [db EXCEPT !.tables =
        [n \in DOMAIN db.tables \cup DOMAIN db.catalog |->
            IF n \in DOMAIN db.catalog
            THEN Table_load(Table_new(n, db.catalog[n].columns), db.catalog[n].page_ids)
            ELSE db.tables[n]]]

RECURSIVE UpdatePageIds(_, _, _)
UpdatePageIds(catalog, tables, order) ==
    IF order = <<>> THEN [catalog |-> catalog, res |-> Ok(Unit)]
    ELSE Bind(Catalog_update_table_page_ids(catalog, Head(order),
                                            tables[Head(order)].page_ids),
              LAMBDA u : IF IsOk(u.res) THEN UpdatePageIds(u.catalog, tables, Tail(order))
                         ELSE u)

\* A save that flushes the dirty pages before it writes the catalog file.
Database_save_flush_first(db) ==
    UNION {
        IF ~IsOk(u.res) THEN {[db |-> [db EXCEPT !.catalog = u.catalog], res |-> u.res]}
        ELSE {IF ~IsOk(f.res)
              THEN [db |-> [db EXCEPT !.catalog = u.catalog,
                                      !.persistence.buffer_manager = f.bm],
                    res |-> f.res]
              ELSE [db |-> [db EXCEPT !.catalog = u.catalog,
                                      !.persistence = [PersistenceManager_save_metadata(
                                                           db.persistence, u.catalog)
                                                       EXCEPT !.buffer_manager = f.bm]],
                    res |-> f.res]
                : f \in BufferManager_flush_all_pages(db.persistence.buffer_manager)}
        : u \in {UpdatePageIds(db.catalog, db.tables, o) : o \in Orders(DOMAIN db.tables)}}

\* Database::save: the set of its possible outcomes (the maps it walks have
\* no specified order).
Database_save(db) ==
    UNION {
        IF ~IsOk(u.res) THEN {[db |-> [db EXCEPT !.catalog = u.catalog], res |-> u.res]}
        ELSE {[db |-> [db EXCEPT !.catalog = u.catalog,
                                 !.persistence = [PersistenceManager_save_metadata(
                                                      db.persistence, u.catalog)
                                                  EXCEPT !.buffer_manager = f.bm]],
               res |-> f.res]
                : f \in BufferManager_flush_all_pages(db.persistence.buffer_manager)}
        : u \in {UpdatePageIds(db.catalog, db.tables, o) : o \in Orders(DOMAIN db.tables)}}

Database_insert_record(db, table_name, values) ==
    IF table_name \in DOMAIN db.tables
    THEN Bind(Table_insert_record(db.tables[table_name], db.persistence.buffer_manager, values),
              LAMBDA r : [db |-> [db EXCEPT !.tables[table_name] = r.table,
                                            !.persistence.buffer_manager = r.bm],
                          res |-> r.res])
    ELSE [db |-> db, res |-> Err("NotFound")]

Database_delete_record(db, table_name, record_id) ==
    IF table_name \in DOMAIN db.tables
    THEN Bind(Table_delete_record(db.tables[table_name], db.persistence.buffer_manager, record_id),
              LAMBDA r : [db |-> [db EXCEPT !.tables[table_name] = r.table,
                                            !.persistence.buffer_manager = r.bm],
                          res |-> r.res])
    ELSE [db |-> db, res |-> Err("NotFound")]

Database_update_record(db, table_name, record_id, set_pairs) ==
    IF table_name \in DOMAIN db.tables
    THEN Bind(Table_update_record(db.tables[table_name], db.persistence.buffer_manager, record_id, set_pairs),
              LAMBDA r : [db |-> [db EXCEPT !.tables[table_name] = r.table,
                                            !.persistence.buffer_manager = r.bm],
                          res |-> r.res])
    ELSE [db |-> db, res |-> Err("NotFound")]

Database_get_all_records(db, table_name) ==
    IF table_name \notin DOMAIN db.tables THEN [db |-> db, res |-> Err("NotFound")]
    ELSE Bind(Table_get_all_records(db.tables[table_name], db.persistence.buffer_manager),
              LAMBDA r : [db |-> [db EXCEPT !.persistence.buffer_manager = r.bm],
                          res |-> r.res])

(***************************************************************************)
(* StorageEngine (storage.rs): [databases, current_database].  The files   *)
(* under base_dir are a function from directory names to [data, meta].     *)
(* Operations return [storage, res].                                       *)
(***************************************************************************)
DEFAULT_DB_NAME == "default"

\* The directory of a database as Database::new finds it.
DirEntry(dirs, name) == IF name \in DOMAIN dirs THEN Some(dirs[name]) ELSE None

StorageEngine_load(dirs) ==
    [databases |-> [n \in DOMAIN dirs |-> Database_load(Database_new(n, DirEntry(dirs, n)))],
     current_database |-> None]

StorageEngine_create_database(se, dirs, name) ==
    IF name \in DOMAIN se.databases THEN [storage |-> se, res |-> Err("Schema")]
    ELSE [storage |-> [databases |-> MapPut(se.databases, name,
                                            Database_new(name, DirEntry(dirs, name))),
                       current_database |-> IF se.current_database = None
                                            THEN Some(name) ELSE se.current_database],
          res |-> Ok(Unit)]

StorageEngine_use_database(se, name) ==
    IF name \notin DOMAIN se.databases THEN [storage |-> se, res |-> Err("NotFound")]
    ELSE [storage |-> [se EXCEPT !.current_database = Some(name)], res |-> Ok(Unit)]

\* current_database / current_database_mut resolving to "default" whenever
\* that database exists, whatever the selection.
StorageEngine_current_database_default_first(se) ==
    IF DEFAULT_DB_NAME \in DOMAIN se.databases THEN Ok(DEFAULT_DB_NAME)
    ELSE IF IsSome(se.current_database)
         THEN IF se.current_database[1] \in DOMAIN se.databases
              THEN Ok(se.current_database[1]) ELSE Err("NotFound")
         ELSE Err("Other")

\* current_database / current_database_mut: Ok(name of the database) or
\* the error.
StorageEngine_current_database(se) ==
    IF IsSome(se.current_database)
    THEN IF se.current_database[1] \in DOMAIN se.databases
         THEN Ok(se.current_database[1]) ELSE Err("NotFound")
    ELSE IF DEFAULT_DB_NAME \in DOMAIN se.databases
         THEN Ok(DEFAULT_DB_NAME) ELSE Err("Other")

\* Option::unwrap_or
unwrap_or(opt, default) == IF IsSome(opt) THEN opt[1] ELSE default

\* StorageEngine::new(Some(base_dir), db_name), db_name being an Option.
StorageEngine_new(dirs, db_name) ==
    Bind(StorageEngine_load(dirs), LAMBDA loaded :
        Bind(IF unwrap_or(db_name, DEFAULT_DB_NAME) \notin DOMAIN loaded.databases
             THEN StorageEngine_create_database(
                      loaded, dirs, unwrap_or(db_name, DEFAULT_DB_NAME)).storage
             ELSE loaded,
             LAMBDA created :
                 IF ~IsOk(StorageEngine_current_database(created))
                 THEN StorageEngine_use_database(
                          created, unwrap_or(db_name, DEFAULT_DB_NAME)).storage
                 ELSE created))

\* A proxy method: run Op on the current database.
OnCurrent(se, Op(_)) ==
    Bind(StorageEngine_current_database(se), LAMBDA cur :
        IF ~IsOk(cur) THEN [storage |-> se, res |-> cur]
        ELSE Bind(Op(se.databases[cur[2]]), LAMBDA r :
                 [storage |-> [se EXCEPT !.databases[cur[2]] = r.db], res |-> r.res]))

StorageEngine_create_table(se, name, columns) ==
    OnCurrent(se, LAMBDA db : Database_create_table(db, name, columns))

StorageEngine_drop_table(se, name) ==
    OnCurrent(se, LAMBDA db : Database_drop_table(db, name))

StorageEngine_get_table(se, name) ==
    Bind(StorageEngine_current_database(se), LAMBDA cur :
        IF ~IsOk(cur) THEN cur ELSE Database_get_table(se.databases[cur[2]], name))

StorageEngine_get_table_columns(se, name) ==
    Bind(StorageEngine_current_database(se), LAMBDA cur :
        IF ~IsOk(cur) THEN cur
        ELSE IF name \notin DOMAIN se.databases[cur[2]].tables THEN Err("NotFound")
        ELSE Ok(se.databases[cur[2]].tables[name].columns))

StorageEngine_insert_record(se, table_name, values) ==
    OnCurrent(se, LAMBDA db : Database_insert_record(db, table_name, values))

StorageEngine_delete_record(se, table_name, record_id) ==
    OnCurrent(se, LAMBDA db : Database_delete_record(db, table_name, record_id))

StorageEngine_update_record(se, table_name, record_id, set_pairs) ==
    OnCurrent(se, LAMBDA db : Database_update_record(db, table_name, record_id, set_pairs))

StorageEngine_get_all_records(se, table_name) ==
    OnCurrent(se, LAMBDA db : Database_get_all_records(db, table_name))

RECURSIVE SaveInOrder(_, _)
SaveInOrder(se, order) ==
    IF order = <<>> THEN {[storage |-> se, res |-> Ok(Unit)]}
    ELSE UNION {
        IF IsOk(s.res)
        THEN SaveInOrder([se EXCEPT !.databases[Head(order)] = s.db], Tail(order))
        ELSE {[storage |-> [se EXCEPT !.databases[Head(order)] = s.db], res |-> s.res]}
        : s \in Database_save(se.databases[Head(order)])}

\* StorageEngine::save: the set of its possible outcomes.
StorageEngine_save(se) ==
    UNION {SaveInOrder(se, o) : o \in Orders(DOMAIN se.databases)}

\* Drop of a database value: its BufferManager flushes what it can, the
\* error being only printed.  The set of directories it may leave.
Database_drop(db) ==
    {DirOf([db EXCEPT !.persistence.buffer_manager = f.bm])
        : f \in BufferManager_flush_all_pages(db.persistence.buffer_manager)}

\* StorageEngine::drop_database: the set of its possible outcomes
\* [storage, dirs, res], dirs being the files under base_dir once the
\* removed Database value has been dropped.
StorageEngine_drop_database(se, dirs, name) ==
    IF name \notin DOMAIN se.databases
    THEN {[storage |-> se, dirs |-> dirs, res |-> Err("NotFound")]}
    ELSE {[storage |-> [databases |-> MapRemove(se.databases, name),
                        current_database |-> IF se.current_database = Some(name)
                                             THEN None ELSE se.current_database],
           dirs |-> MapPut(dirs, name, left),
           res |-> Ok(Unit)]
             : left \in Database_drop(se.databases[name])}

\* The directories the drop of every database of the map may leave.
DropAll(databases) ==
    {l \in [DOMAIN databases -> UNION {Database_drop(databases[n]) : n \in DOMAIN databases}] :
        \A n \in DOMAIN databases : l[n] \in Database_drop(databases[n])}

\* Drop of the engine: save, the error being only printed, then the drop
\* of every database.  The set of contents base_dir may be left with.
StorageEngine_drop(se, dirs) ==
    UNION {
        {[n \in DOMAIN dirs \cup DOMAIN left |->
             IF n \in DOMAIN left THEN left[n] ELSE dirs[n]]
           : left \in DropAll(s.storage.databases)}
        : s \in StorageEngine_save(se)}

\* The files under base_dir while the engine se is open.
SyncDir(dirs, se) ==
    [n \in DOMAIN dirs \cup DOMAIN se.databases |->
        IF n \in DOMAIN se.databases THEN DirOf(se.databases[n]) ELSE dirs[n]]

(***************************************************************************)
(* Expressions and conditions (planner.rs), restricted to columns,         *)
(* literals and the six comparisons.  An expression is <<"Column", name>>, *)
(* <<"Value", v>> or <<"Binary", op, left, right>>.                        *)
(***************************************************************************)
RECURSIVE Expression_evaluate(_, _, _)
Expression_evaluate(expr, record, columns) ==
    CASE expr[1] = "Column" ->
            Bind(ColumnIndex(columns, expr[2]), LAMBDA column_idx :
                IF column_idx = 0 THEN Err("Planner") ELSE Ok(record.data[column_idx]))
      [] expr[1] = "Value" -> Ok(expr[2])
      [] expr[1] = "Binary" ->
            Bind(Expression_evaluate(expr[3], record, columns), LAMBDA left_val :
                IF ~IsOk(left_val) THEN left_val
                ELSE Bind(Expression_evaluate(expr[4], record, columns), LAMBDA right_val :
                    IF ~IsOk(right_val) THEN right_val
                    ELSE Bind(Compare(expr[2], left_val[2], right_val[2]), LAMBDA c :
                             IF IsOk(c) THEN Ok(Value_Boolean(c[2])) ELSE c)))

\* The outcome of a call that reaches todo!(): the thread panics.
Panic == <<"Panic", "todo">>

IsPanic(r) == r[1] = "Panic"

\* A condition is <<"Expression", expr>>, <<"IsNull", expr>>,
\* <<"IsNotNull", expr>> or <<"Constant", b>>.  Condition::evaluate has an
\* arm for the first and todo!() for the others.
Condition_evaluate(condition, record, columns) ==
    IF condition[1] = "Expression"
    THEN Bind(Expression_evaluate(condition[2], record, columns), LAMBDA result :
             IF ~IsOk(result) THEN result
             ELSE IF Tag(result[2]) = "Boolean" THEN Ok(result[2][2])
             ELSE Err("Execution"))
    ELSE Panic

(***************************************************************************)
(* Executor (executor.rs): ORDER BY and the SELECT plan.                   *)
(***************************************************************************)
\* Ord::cmp as -1 (Less), 0 (Equal), 1 (Greater).
Cmp(x, y) == IF x < y THEN -1 ELSE IF x > y THEN 1 ELSE 0

\* The arms of compare_values on two non-null values.
CompareNonNull(a, b) ==
    IF IsNumeric(a) /\ IsNumeric(b) THEN Cmp(Halves(a), Halves(b))
    ELSE IF Tag(a) = "String" /\ Tag(b) = "String" THEN Cmp(a[2], b[2])
    ELSE IF Tag(a) = "Boolean" /\ Tag(b) = "Boolean"
         THEN Cmp(IF a[2] THEN 1 ELSE 0, IF b[2] THEN 1 ELSE 0)
    ELSE 0

\* compare_values with Null ordered above every other value.
compare_values_null_high(a, b) ==
    IF Tag(a) = "Null" /\ Tag(b) = "Null" THEN 0
    ELSE IF Tag(a) = "Null" THEN 1
    ELSE IF Tag(b) = "Null" THEN -1
    ELSE CompareNonNull(a, b)

compare_values(a, b) ==
    IF Tag(a) = "Null" /\ Tag(b) = "Null" THEN 0
    ELSE IF Tag(a) = "Null" THEN -1
    ELSE IF Tag(b) = "Null" THEN 1
    ELSE CompareNonNull(a, b)

\* The closure handed to sort_by.  An order item is [column, direction].
RECURSIVE CompareRecords(_, _, _, _)
CompareRecords(a, b, order_items, table_columns) ==
    IF order_items = <<>> THEN 0
    ELSE LET order_item == Head(order_items)
             column_idx == ColumnIndex(table_columns, order_item.column)
         IN IF column_idx = 0
            THEN CompareRecords(a, b, Tail(order_items), table_columns)
            ELSE LET cmp_result == compare_values(a.data[column_idx], b.data[column_idx])
                     final_result == IF order_item.direction = "Asc"
                                     THEN cmp_result ELSE -cmp_result
                 IN IF final_result # 0 THEN final_result
                    ELSE CompareRecords(a, b, Tail(order_items), table_columns)

\* Vec::sort_by is a stable sort: insertion after the last element that is
\* not greater.
RECURSIVE InsertSorted(_, _, _, _)
InsertSorted(sorted, r, order_items, table_columns) ==
    IF sorted = <<>> THEN <<r>>
    ELSE IF CompareRecords(sorted[Len(sorted)], r, order_items, table_columns) <= 0
         THEN Append(sorted, r)
         ELSE Append(InsertSorted(SubSeq(sorted, 1, Len(sorted) - 1), r,
                                  order_items, table_columns),
                     sorted[Len(sorted)])

RECURSIVE SortFrom(_, _, _, _)
SortFrom(sorted, rest, order_items, table_columns) ==
    IF rest = <<>> THEN sorted
    ELSE SortFrom(InsertSorted(sorted, Head(rest), order_items, table_columns),
                  Tail(rest), order_items, table_columns)

sort_records(records, order_items, table_columns) ==
    SortFrom(<<>>, records, order_items, table_columns)

\* unwrap_or(true): a row whose condition fails counts as matching.
unwrap_or_true(c) == IF IsOk(c) THEN c[2] ELSE TRUE

\* Result::unwrap_or(false) on the outcome of Condition::evaluate.
unwrap_or_false(c) == IF IsOk(c) THEN c[2] ELSE FALSE

\* The filter of a SELECT, UPDATE or DELETE: Ok of the records the closure
\* keeps, or the panic of the first evaluation that panics.
FilterRecords(records, conditions, table_columns) ==
    IF conditions = None THEN Ok(records)
    ELSE IF \E i \in DOMAIN records :
               IsPanic(Condition_evaluate(conditions[1], records[i], table_columns))
    THEN Panic
    ELSE Ok(SelectSeq(records,
                      LAMBDA record :
                          unwrap_or_false(
                              Condition_evaluate(conditions[1], record, table_columns))))

\* Select columns are <<"Wildcard">> or <<"Columns", items>>, an item being
\* [expr, alias, original_text].
ProjectRow(record, items, table_columns) ==
    [i \in DOMAIN items |-> Expression_evaluate(items[i].expr, record, table_columns)]

project_columns(records, select_columns, table_columns) ==
    IF select_columns[1] = "Wildcard"
    THEN Ok([r \in DOMAIN records |-> records[r].data])
    ELSE Bind([r \in DOMAIN records |->
                  ProjectRow(records[r], select_columns[2], table_columns)],
              LAMBDA rows :
        IF \E r \in DOMAIN rows : \E i \in DOMAIN rows[r] : ~IsOk(rows[r][i])
        THEN LET r == CHOOSE r \in DOMAIN rows :
                         /\ \E i \in DOMAIN rows[r] : ~IsOk(rows[r][i])
                         /\ \A q \in 1..(r - 1) : \A i \in DOMAIN rows[q] : IsOk(rows[q][i])
                 i == CHOOSE i \in DOMAIN rows[r] :
                         /\ ~IsOk(rows[r][i])
                         /\ \A j \in 1..(i - 1) : IsOk(rows[r][j])
             IN rows[r][i]
        ELSE Ok([r \in DOMAIN rows |-> [i \in DOMAIN rows[r] |-> rows[r][i][2]]]))

generate_result_columns(select_columns, table_columns) ==
    IF select_columns[1] = "Wildcard"
    THEN [i \in DOMAIN table_columns |-> table_columns[i].name]
    ELSE [i \in DOMAIN select_columns[2] |->
             IF IsSome(select_columns[2][i].alias)
             THEN select_columns[2][i].alias[1]
             ELSE select_columns[2][i].original_text]

execute_expression_select(columns) ==
    IF columns[1] = "Wildcard" THEN Err("Execution")
    ELSE Bind(project_columns(<<[id |-> None, data |-> <<>>]>>, columns, <<>>), LAMBDA row :
             IF ~IsOk(row) THEN row
             ELSE Ok([columns |-> generate_result_columns(columns, <<>>), rows |-> row[2]]))

\* Executor::execute on Plan::Select [table_name, columns, conditions,
\* order_by].  Returns [storage, res], res being Ok of the result set
\* [columns, rows].
Executor_select(se, plan) ==
    IF plan.table_name = None
    THEN [storage |-> se, res |-> execute_expression_select(plan.columns)]
    ELSE Bind(StorageEngine_get_table_columns(se, plan.table_name[1]), LAMBDA table_columns :
        IF ~IsOk(table_columns) THEN [storage |-> se, res |-> table_columns]
        ELSE Bind(StorageEngine_get_all_records(se, plan.table_name[1]), LAMBDA g :
            IF ~IsOk(g.res) THEN g
            ELSE Bind(FilterRecords(g.res[2], plan.conditions, table_columns[2]),
                      LAMBDA filtered :
                IF ~IsOk(filtered) THEN [storage |-> g.storage, res |-> filtered]
                ELSE
                Bind(IF IsSome(plan.order_by)
                     THEN sort_records(filtered[2], plan.order_by[1], table_columns[2])
                     ELSE filtered[2],
                     LAMBDA records :
                Bind(project_columns(records, plan.columns, table_columns[2]),
                     LAMBDA result_rows :
                    IF ~IsOk(result_rows) THEN [storage |-> g.storage, res |-> result_rows]
                    ELSE [storage |-> g.storage,
                          res |-> Ok([columns |-> generate_result_columns(
                                                      plan.columns, table_columns[2]),
                                      rows |-> result_rows[2]])])))))

\* The loop of Plan::Update over the records the filter kept.  Every
\* record get_all_records returns carries its id (Record::with_id), so
\* record.id() is Some.
RECURSIVE UpdateEach(_, _, _, _)
UpdateEach(se, table_name, to_update, set_pairs) ==
    IF to_update = <<>> THEN [storage |-> se, res |-> Ok("Success")]
    ELSE Bind(StorageEngine_update_record(se, table_name, Head(to_update).id, set_pairs),
              LAMBDA u : IF ~IsOk(u.res) THEN u
                         ELSE UpdateEach(u.storage, table_name, Tail(to_update), set_pairs))

\* Executor::execute on Plan::Update [table_name, set_pairs, conditions].
Executor_update(se, plan) ==
    Bind(StorageEngine_get_table_columns(se, plan.table_name), LAMBDA table_columns :
        IF ~IsOk(table_columns) THEN [storage |-> se, res |-> table_columns]
        ELSE Bind(StorageEngine_get_all_records(se, plan.table_name), LAMBDA g :
            IF ~IsOk(g.res) THEN g
            ELSE Bind(FilterRecords(g.res[2], plan.conditions, table_columns[2]),
                      LAMBDA to_update :
                IF ~IsOk(to_update) THEN [storage |-> g.storage, res |-> to_update]
                ELSE UpdateEach(g.storage, plan.table_name, to_update[2], plan.set_pairs))))

\* A pass that walks the live record vector by position while it deletes:
\* each deletion shifts the vector, so that the record after a deleted one
\* is stepped over.
RECURSIVE DeleteEach_by_position(_, _, _)
DeleteEach_by_position(se, table_name, to_delete) ==
    IF to_delete = <<>> THEN [storage |-> se, res |-> Ok("Success")]
    ELSE Bind(StorageEngine_delete_record(se, table_name, Head(to_delete).id),
              LAMBDA d : IF ~IsOk(d.res) THEN d
                         ELSE DeleteEach_by_position(d.storage, table_name,
                                                     SubSeq(to_delete, 3, Len(to_delete))))

\* The loop of Plan::Delete over the records the filter kept.
RECURSIVE DeleteEach(_, _, _)
DeleteEach(se, table_name, to_delete) ==
    IF to_delete = <<>> THEN [storage |-> se, res |-> Ok("Success")]
    ELSE Bind(StorageEngine_delete_record(se, table_name, Head(to_delete).id),
              LAMBDA d : IF ~IsOk(d.res) THEN d
                         ELSE DeleteEach(d.storage, table_name, Tail(to_delete)))

\* Executor::execute on Plan::Delete [table_name, conditions].
Executor_delete(se, plan) ==
    Bind(StorageEngine_get_table_columns(se, plan.table_name), LAMBDA table_columns :
        IF ~IsOk(table_columns) THEN [storage |-> se, res |-> table_columns]
        ELSE Bind(StorageEngine_get_all_records(se, plan.table_name), LAMBDA g :
            IF ~IsOk(g.res) THEN g
            ELSE Bind(FilterRecords(g.res[2], plan.conditions, table_columns[2]),
                      LAMBDA to_delete :
                IF ~IsOk(to_delete) THEN [storage |-> g.storage, res |-> to_delete]
                ELSE DeleteEach(g.storage, plan.table_name, to_delete[2]))))

\* A validation that accepts every value.
validate_value_type_lenient(value, data_type) == Ok(Unit)

\* Executor::validate_value_type; a string value is its length.
validate_value_type(value, data_type) ==
    IF Tag(value) = "Int" /\ data_type[1] = "Int" THEN Ok(Unit)
    ELSE IF Tag(value) = "String" /\ data_type[1] = "Varchar"
    THEN IF value[2] > data_type[2] THEN Err("Schema") ELSE Ok(Unit)
    ELSE IF Tag(value) = "Null" THEN Ok(Unit)
    ELSE Err("Schema")

\* The inner loop of an INSERT without column list: the first error of the
\* type checks of a row, from value col_index on.
RECURSIVE ValidateRow(_, _, _)
ValidateRow(row, table_columns, col_index) ==
    IF col_index > Len(row) THEN Ok(Unit)
    ELSE Bind(validate_value_type(row[col_index], table_columns[col_index].data_type),
              LAMBDA v : IF ~IsOk(v) THEN v
                         ELSE ValidateRow(row, table_columns, col_index + 1))

\* The second loop of an INSERT without column list.
RECURSIVE InsertEach(_, _, _, _)
InsertEach(se, table_name, rows, table_columns) ==
    IF rows = <<>> THEN [storage |-> se, res |-> Ok("Success")]
    ELSE Bind(ValidateRow(Head(rows), table_columns, 1), LAMBDA v :
        IF ~IsOk(v) THEN [storage |-> se, res |-> v]
        ELSE Bind(StorageEngine_insert_record(se, table_name, Head(rows)), LAMBDA i :
            IF ~IsOk(i.res) THEN i
            ELSE InsertEach(i.storage, table_name, Tail(rows), table_columns)))

\* The loop over the table's columns that builds the full row of an INSERT
\* with a column list: Ok(full_row) or the error.
RECURSIVE BuildFullRow(_, _, _, _)
BuildFullRow(row, columns, table_columns, full_row) ==
    IF Len(full_row) = Len(table_columns) THEN Ok(full_row)
    ELSE Bind(table_columns[Len(full_row) + 1], LAMBDA table_col :
         Bind(PositionFrom(columns, LAMBDA col : col = table_col.name, 1),
              LAMBDA column_index :
             IF column_index # 0
             THEN IF ~IsOk(validate_value_type(row[column_index], table_col.data_type))
                  THEN validate_value_type(row[column_index], table_col.data_type)
                  ELSE BuildFullRow(row, columns, table_columns,
                                    Append(full_row, row[column_index]))
             ELSE IF table_col.not_null THEN Err("Execution")
             ELSE BuildFullRow(row, columns, table_columns, Append(full_row, Value_Null))))

\* The loop over the rows of an INSERT with a column list.
RECURSIVE InsertEachListed(_, _, _, _, _)
InsertEachListed(se, table_name, columns, rows, table_columns) ==
    IF rows = <<>> THEN [storage |-> se, res |-> Ok("Success")]
    ELSE Bind(BuildFullRow(Head(rows), columns, table_columns, <<>>), LAMBDA full_row :
        IF ~IsOk(full_row) THEN [storage |-> se, res |-> full_row]
        ELSE Bind(StorageEngine_insert_record(se, table_name, full_row[2]), LAMBDA i :
            IF ~IsOk(i.res) THEN i
            ELSE InsertEachListed(i.storage, table_name, columns, Tail(rows),
                                  table_columns)))

\* Executor::execute on Plan::Insert [table_name, columns, rows].
Executor_insert(se, plan) ==
    Bind(StorageEngine_get_table_columns(se, plan.table_name), LAMBDA table_columns :
        IF ~IsOk(table_columns) THEN [storage |-> se, res |-> table_columns]
        ELSE IF plan.columns = <<>>
        THEN IF \E row_index \in DOMAIN plan.rows :
                    Len(plan.rows[row_index]) # Len(table_columns[2])
             THEN [storage |-> se, res |-> Err("Execution")]
             ELSE InsertEach(se, plan.table_name, plan.rows, table_columns[2])
        ELSE InsertEachListed(se, plan.table_name, plan.columns, plan.rows,
                              table_columns[2]))

\* Ok(Success), or the error of a storage call rewrapped the way the
\* match arms of the DDL plans do: DBError::Schema(e.to_string()).
AsSchemaError(res) == IF IsOk(res) THEN Ok("Success") ELSE Err("Schema")

\* Executor::execute on Plan::CreateTable [name, columns].
Executor_create_table(se, plan) ==
    Bind(StorageEngine_create_table(se, plan.name, plan.columns), LAMBDA r :
        [storage |-> r.storage, res |-> AsSchemaError(r.res)])

\* Executor::execute on Plan::DropTable [name].
Executor_drop_table(se, plan) ==
    Bind(StorageEngine_drop_table(se, plan.name), LAMBDA r :
        [storage |-> r.storage, res |-> AsSchemaError(r.res)])

\* Executor::execute on Plan::CreateDatabase [name].
Executor_create_database(se, dirs, plan) ==
    Bind(StorageEngine_create_database(se, dirs, plan.name), LAMBDA r :
        [storage |-> r.storage, res |-> AsSchemaError(r.res)])

\* Executor::execute on Plan::DropDatabase [name]: the set of outcomes
\* [storage, dirs, res].
Executor_drop_database(se, dirs, plan) ==
    {[storage |-> r.storage, dirs |-> r.dirs, res |-> AsSchemaError(r.res)]
        : r \in StorageEngine_drop_database(se, dirs, plan.name)}

\* Executor::execute on Plan::UseDatabase [name].
Executor_use_database(se, plan) ==
    Bind(StorageEngine_use_database(se, plan.name), LAMBDA r :
        [storage |-> r.storage, res |-> AsSchemaError(r.res)])

\* Executor::execute on the plans of a table; a plan is <<variant, fields>>.
Executor_execute(se, plan) ==
    CASE plan[1] = "CreateTable" -> Executor_create_table(se, plan[2])
      [] plan[1] = "DropTable" -> Executor_drop_table(se, plan[2])
      [] plan[1] = "Insert" -> Executor_insert(se, plan[2])
      [] plan[1] = "Update" -> Executor_update(se, plan[2])
      [] plan[1] = "Delete" -> Executor_delete(se, plan[2])
      [] plan[1] = "Select" -> Executor_select(se, plan[2])

\* Planner::plan_insert on the statement [table_name, columns, rows] whose
\* row expressions are literal values.
plan_insert(insert) ==
    IF /\ insert.columns # <<>>
       /\ \E k \in DOMAIN insert.rows : Len(insert.rows[k]) # Len(insert.columns)
    THEN Err("Parse")
    ELSE Ok(<<"Insert", insert>>)

\* Planner::plan on a parsed statement <<variant, fields>>; the statements
\* other than INSERT are given by the plan their analysis yields.
Planner_plan(stmt) ==
    IF stmt[1] = "Insert" THEN plan_insert(stmt[2]) ELSE Ok(stmt)

\* The loop of execute_sql over the parsed statements.
RECURSIVE ExecuteEach(_, _, _)
ExecuteEach(se, ast_statements, results) ==
    IF ast_statements = <<>> THEN [storage |-> se, res |-> Ok(results)]
    ELSE Bind(Planner_plan(Head(ast_statements)), LAMBDA plan :
        IF ~IsOk(plan) THEN [storage |-> se, res |-> plan]
        ELSE Bind(Executor_execute(se, plan[2]), LAMBDA result :
            IF IsPanic(result.res) THEN result
            ELSE ExecuteEach(result.storage, Tail(ast_statements),
                             Append(results, result.res))))

\* SimpleDB::execute_sql on a script that parses to ast_statements: res is
\* Ok of the vector of the statements' results, or the error returned.
SimpleDB_execute_sql(se, ast_statements) == ExecuteEach(se, ast_statements, <<>>)

(***************************************************************************)
(* Planner::analyze_column_definitions.  An ast column is a record         *)
(* [name, data_type, options]; data_type is <<"Int", size>>,               *)
(* <<"Integer", size>> (size an Option), <<"Varchar", length>> (length     *)
(* None, Some(<<"IntegerLength", n>>) or Some(<<"Max">>)) or another type; *)
(* an option is <<"NotNull">>, <<"Unique", is_primary>> or another option. *)
(***************************************************************************)
\* u64::MAX, scaled to 2^31 - 1: above every length a column declares.
U64_MAX == 2147483647

AnalyzeDataType(data_type) ==
    IF data_type[1] \in {"Int", "Integer"}
    THEN Ok(<<"Int", unwrap_or(data_type[2], 64)>>)
    ELSE IF data_type[1] = "Varchar"
    THEN IF IsSome(data_type[2]) /\ data_type[2][1][1] = "IntegerLength"
         THEN Ok(<<"Varchar", data_type[2][1][2]>>)
         ELSE Ok(<<"Varchar", U64_MAX>>)
    ELSE Err("Planner")

\* The arm of ColumnOption::Unique { is_primary } that leaves not_null as
\* the options before it set it.
OptionUnique_keep_not_null(flags, is_primary) ==
    [flags EXCEPT !.unique = TRUE, !.is_primary = is_primary]

\* The arm of ColumnOption::Unique { is_primary }.
OptionUnique(flags, is_primary) ==
    [flags EXCEPT !.unique = TRUE, !.is_primary = is_primary, !.not_null = is_primary]

\* The loop over col.options: Ok(flags) or the planner error.
RECURSIVE AnalyzeOptions(_, _)
AnalyzeOptions(options, flags) ==
    IF options = <<>> THEN Ok(flags)
    ELSE IF Head(options)[1] = "NotNull"
    THEN AnalyzeOptions(Tail(options), [flags EXCEPT !.not_null = TRUE])
    ELSE IF Head(options)[1] = "Unique"
    THEN AnalyzeOptions(Tail(options), OptionUnique(flags, Head(options)[2]))
    ELSE Err("Planner")

\* The loop over cols: Ok(columns) or the first error.
RECURSIVE AnalyzeColumns(_, _)
AnalyzeColumns(cols, columns) ==
    IF cols = <<>> THEN Ok(columns)
    ELSE Bind(AnalyzeDataType(Head(cols).data_type), LAMBDA data_type :
        IF ~IsOk(data_type) THEN data_type
        ELSE Bind(AnalyzeOptions(Head(cols).options,
                                 [not_null |-> FALSE, unique |-> FALSE, is_primary |-> FALSE]),
                  LAMBDA flags :
            IF ~IsOk(flags) THEN flags
            ELSE AnalyzeColumns(Tail(cols),
                                Append(columns,
                                       ColumnDef(Head(cols).name, data_type[2], flags[2].not_null,
                                                 flags[2].unique, flags[2].is_primary)))))

analyze_column_definitions(cols) == AnalyzeColumns(cols, <<>>)

(***************************************************************************)
(* Specifications.  The variables a specification does not use keep the    *)
(* values Idle gives them.                                                 *)
(***************************************************************************)
NoCall == [op |-> "none"]

IdleCall == last = NoCall /\ steps = 0

IdleStorage ==
    /\ storage = None
    /\ base_dir = <<>>
    /\ pc = "dropped"
    /\ live = <<>>
    /\ n_ins = <<>>
    /\ n_del = <<>>
    /\ memo = <<>>
    /\ snapshot = None

IdlePage == cur_page = Page_new(0)

IdleFn == fn_in = None /\ fn_out = None

IdleBuffer == buffer_manager = None /\ access = <<>>

storage_vars == <<storage, base_dir, pc, live, n_ins, n_del, memo, snapshot>>

call_vars == <<last, steps>>

(***************************************************************************)
(* SpecValue: the six comparisons of Value applied to every pair of the    *)
(* values below.                                                           *)
(***************************************************************************)
ValueInputs ==
    {Value_Null, Value_Int(-1), Value_Int(0), Value_Int(1), Value_Float(1), Value_Float(2),
     Value_String(0), Value_String(1), Value_Boolean(FALSE), Value_Boolean(TRUE)}

CompareOps == {"eq", "ne", "lt", "le", "gt", "ge"}

InitValue ==
    /\ IdleStorage
    /\ IdleCall
    /\ IdleBuffer
    /\ IdlePage
    /\ fn_in \in [op : {"none"}, a : ValueInputs, b : ValueInputs]
    /\ fn_out = None

Apply(op) ==
    /\ fn_in' = [fn_in EXCEPT !.op = op]
    /\ fn_out' = Some(Compare(op, fn_in.a, fn_in.b))
    /\ UNCHANGED <<storage_vars, call_vars, cur_page, buffer_manager, access>>

ApplyEq == Apply("eq")

ApplyNe == Apply("ne")

ApplyLt == Apply("lt")

ApplyLe == Apply("le")

ApplyGt == Apply("gt")

ApplyGe == Apply("ge")

NextValue == ApplyEq \/ ApplyNe \/ ApplyLt \/ ApplyLe \/ ApplyGt \/ ApplyGe

SpecValue == InitValue /\ [][NextValue]_vars

\* C8: each of the six comparisons (eq, ne, lt, le, gt, ge) with Null as
\* either operand returns Ok(false), whatever the other operand is.
C8_NullComparisonsFalse ==
    (fn_in.op \in CompareOps /\ (fn_in.a = Value_Null \/ fn_in.b = Value_Null))
        => fn_out = Some(Ok(FALSE))

(***************************************************************************)
(* SpecSort: sort_records on every list of at most MaxSortLen records of a *)
(* two-column table, the record ids giving the scan order.                 *)
(***************************************************************************)
SortColumns ==
    <<ColumnDef("a", <<"Int", 11>>, FALSE, FALSE, FALSE),
      ColumnDef("b", <<"Int", 11>>, FALSE, FALSE, FALSE)>>

SortKeys == {Value_Null, Value_Int(1), Value_Int(2)}

SortRows == {<<x, y>> : x \in SortKeys, y \in SortKeys}

\* A scan result: the i-th record sits in slot i - 1 of page 0.
ScanOf(rows) == [i \in DOMAIN rows |-> Record_with_id(RecordId_new(0, i - 1), rows[i])]

SortInputs == UNION {[1..n -> SortRows] : n \in 0..MaxSortLen}

OrderItem(column, direction) == [column |-> column, direction |-> direction]

SortOrders ==
    {<<OrderItem(c, d)>> : c \in {"a", "b"}, d \in {"Asc", "Desc"}}
    \cup {<<OrderItem("a", d1), OrderItem("b", d2)>> : d1 \in {"Asc", "Desc"}, d2 \in {"Asc", "Desc"}}

InitSort ==
    /\ IdleStorage
    /\ IdleCall
    /\ IdleBuffer
    /\ IdlePage
    /\ fn_in \in [records : {ScanOf(rows) : rows \in SortInputs}, order_items : {<<>>}]
    /\ fn_out = None

SortRecords ==
    \E order_items \in SortOrders :
        /\ fn_in' = [fn_in EXCEPT !.order_items = order_items]
        /\ fn_out' = Some(sort_records(fn_in.records, order_items, SortColumns))
        /\ UNCHANGED <<storage_vars, call_vars, cur_page, buffer_manager, access>>

NextSort == SortRecords

SpecSort == InitSort /\ [][NextSort]_vars

\* The ORDER BY key of a record on the column of an order item.
SortKey(record, order_item) == record.data[ColumnIndex(SortColumns, order_item.column)]

SameKeys(r1, r2, order_items) ==
    \A k \in DOMAIN order_items : SortKey(r1, order_items[k]) = SortKey(r2, order_items[k])

\* C9: ordered by a single column ascending, every row with a Null key
\* precedes every row with a non-null key; ordered descending, every row
\* with a Null key follows every row with a non-null key; rows whose keys
\* are equal on all ORDER BY columns keep their scan order.  The result
\* holds the scanned records and no others.
C9_OrderByNullLow ==
    IsSome(fn_out) =>
        LET out == fn_out[1]
            items == fn_in.order_items
        IN /\ Len(out) = Len(fn_in.records)
           /\ Range(out) = Range(fn_in.records)
           /\ (Len(items) = 1 /\ items[1].direction = "Asc") =>
                 \A i, j \in DOMAIN out :
                     (SortKey(out[i], items[1]) = Value_Null
                      /\ SortKey(out[j], items[1]) # Value_Null) => i < j
           /\ (Len(items) = 1 /\ items[1].direction = "Desc") =>
                 \A i, j \in DOMAIN out :
                     (SortKey(out[i], items[1]) = Value_Null
                      /\ SortKey(out[j], items[1]) # Value_Null) => i > j
           /\ \A i, j \in DOMAIN out :
                 (i < j /\ SameKeys(out[i], out[j], items)) => out[i].id.slot < out[j].id.slot

\* A sort on one ascending column whose input has a row with a non-null
\* key ahead of a row with a Null key, and two rows with equal keys.
C9_Witness ==
    /\ IsSome(fn_out)
    /\ Len(fn_in.order_items) = 1
    /\ fn_in.order_items[1].direction = "Asc"
    /\ \E i, j \in DOMAIN fn_in.records :
          /\ i < j
          /\ SortKey(fn_in.records[i], fn_in.order_items[1]) # Value_Null
          /\ SortKey(fn_in.records[j], fn_in.order_items[1]) = Value_Null
    /\ \E i, j \in DOMAIN fn_in.records :
          i < j /\ SameKeys(fn_in.records[i], fn_in.records[j], fn_in.order_items)

(***************************************************************************)
(* SpecPage: the record operations of one page, page 0.                    *)
(***************************************************************************)
PageRows ==
    {<<Value_Int(1), Value_String(600)>>, <<Value_Null, Value_String(29500)>>}

PageValues == {Value_Null, Value_String(29500)}

PageSlots == 0..2

PageUpdates ==
    {<<<<0, Value_Int(2)>>>>,
     <<<<0, Value_Null>>, <<1, Value_String(29500)>>>>,
     <<<<2, Value_Null>>>>}

InitPage ==
    /\ IdleStorage
    /\ IdleCall
    /\ IdleBuffer
    /\ IdleFn
    /\ cur_page = Page_new(0)

\* One call on the page: r is [page, res].
PageCall(op, args, r) ==
    /\ steps < MaxPageSteps
    /\ cur_page' = r.page
    /\ last' = [op |-> op, args |-> args, res |-> r.res, before |-> cur_page]
    /\ steps' = steps + 1
    /\ UNCHANGED <<storage_vars, fn_in, fn_out, buffer_manager, access>>

PageInsert ==
    \E row \in PageRows :
        PageCall("insert_record", <<row>>, Page_insert_record(cur_page, row))

PageDelete ==
    \E slot \in PageSlots :
        PageCall("delete_record", <<slot>>,
                 Page_delete_record(cur_page, RecordId_new(0, slot)))

PageReplace ==
    \E slot \in PageSlots : \E row \in PageRows :
        PageCall("replace_record", <<slot, row>>,
                 Page_replace_record(cur_page, RecordId_new(0, slot), row))

PageUpdateField ==
    \E slot \in PageSlots : \E field_index \in 0..2 : \E new_value \in PageValues :
        PageCall("update_field", <<slot, field_index, new_value>>,
                 Page_update_field(cur_page, RecordId_new(0, slot), field_index, new_value))

PageUpdateFields ==
    \E slot \in PageSlots : \E updates \in PageUpdates :
        PageCall("update_fields", <<slot, updates>>,
                 Page_update_fields(cur_page, RecordId_new(0, slot), updates))

NextPage == PageInsert \/ PageDelete \/ PageReplace \/ PageUpdateField \/ PageUpdateFields

SpecPage == InitPage /\ [][NextPage]_vars

\* C5: after any sequence of insert_record, replace_record, update_field,
\* update_fields and delete_record calls on a page, the serialized image of
\* its slot array is at most PAGE_SIZE bytes.
C5_PageSizeInvariant == SerializedSize(cur_page.records) <= PAGE_SIZE

\* The vacant slots of a slot array.
VacantSlots(records) == {slot \in 0..(Len(records) - 1) : records[slot + 1] = None}

\* C6: a successful insert_record on a page returns the lowest-numbered
\* vacant slot of the page and leaves the length of the slot array alone;
\* only when no slot is vacant does it extend the array by one slot, which
\* it returns.
C6_SlotReuse ==
    (last.op = "insert_record" /\ IsOk(last.res)) =>
        LET before == last.before.records
            slot == last.res[2].slot
        IN /\ cur_page.records[slot + 1] = Some(last.args[1])
           /\ IF VacantSlots(before) # {}
              THEN /\ slot \in VacantSlots(before)
                   /\ \A v \in VacantSlots(before) : slot <= v
                   /\ Len(cur_page.records) = Len(before)
              ELSE /\ slot = Len(before)
                   /\ Len(cur_page.records) = Len(before) + 1

\* A successful insert on a page where delete_record had freed a slot below
\* an occupied one.
C6_Witness ==
    /\ last.op = "insert_record"
    /\ IsOk(last.res)
    /\ \E v \in VacantSlots(last.before.records) :
          \E o \in 0..(Len(last.before.records) - 1) :
              v < o /\ last.before.records[o + 1] # None

(***************************************************************************)
(* Sessions on a StorageEngine opened on an empty base_dir with the        *)
(* default database.  The actions below are the calls of a session; each   *)
(* specification draws their arguments from its own input sets.            *)
(***************************************************************************)
TestColumns ==
    <<ColumnDef("id", <<"Int", 11>>, FALSE, TRUE, FALSE),
      ColumnDef("name", <<"Varchar", 30000>>, FALSE, FALSE, FALSE)>>

\* The records of a page as the buffer pool holds it, or else as the file
\* holds it.
PageView(bm, page_id) ==
    IF page_id \in DOMAIN bm.pages THEN bm.pages[page_id]
    ELSE IF page_id < Len(bm.disk_manager.file)
         THEN Page_from_data(page_id, bm.disk_manager.file[page_id + 1])
         ELSE Page_new(page_id)

\* The name of the database the proxy methods act on.
CurrentName(se) == StorageEngine_current_database(se)[2]

TablesOf(se) ==
    IF IsOk(StorageEngine_current_database(se))
    THEN DOMAIN se.databases[CurrentName(se)].tables ELSE {}

\* The live records of a table in scan order, read without touching the
\* buffer pool.
TableRecords(se, table_name) ==
    LET db == se.databases[CurrentName(se)]
        page_ids == db.tables[table_name].page_ids
    IN Flatten([k \in DOMAIN page_ids |->
                   Page_iter_records(PageView(db.persistence.buffer_manager, page_ids[k]))])

\* The multiset of the rows of a sequence of records.
BagOfRows(records) ==
    LET rows == [i \in DOMAIN records |-> records[i].data]
    IN [v \in Range(rows) |-> Cardinality({i \in DOMAIN rows : rows[i] = v})]

TablesView(se) ==
    [t \in TablesOf(se) |->
        [columns |-> se.databases[CurrentName(se)].tables[t].columns,
         rows |-> BagOfRows(TableRecords(se, t))]]

Count(f, t) == IF t \in DOMAIN f THEN f[t] ELSE 0

InitSession ==
    /\ storage = StorageEngine_new(<<>>, None)
    /\ base_dir = SyncDir(<<>>, storage)
    /\ pc = "open"
    /\ last = [op |-> "new"]
    /\ steps = 0
    /\ live = <<>>
    /\ n_ins = <<>>
    /\ n_del = <<>>
    /\ memo = <<>>
    /\ snapshot = None
    /\ IdlePage
    /\ IdleFn
    /\ IdleBuffer

\* One call on the open engine: r is [storage, res].
Call(max, op, args, r) ==
    /\ pc = "open"
    /\ steps < max
    /\ storage' = r.storage
    /\ base_dir' = SyncDir(base_dir, r.storage)
    /\ last' = [op |-> op, args |-> args, res |-> r.res, before |-> storage]
    /\ steps' = steps + 1
    /\ pc' = pc
    /\ UNCHANGED <<cur_page, fn_in, fn_out, buffer_manager, access>>

CreateTableOf(max, table_name, columns) ==
    /\ Call(max, "create_table", <<table_name, columns>>,
            StorageEngine_create_table(storage, table_name, columns))
    /\ memo' = <<>>
    /\ snapshot' = None
    /\ UNCHANGED <<live, n_ins, n_del>>

InsertRecordOf(max, table_name, values) ==
    /\ pc = "open"
    /\ \E r \in {StorageEngine_insert_record(storage, table_name, values)} :
       /\ Call(max, "insert_record", <<table_name, values>>, r)
       /\ live' = IF IsOk(r.res) THEN MapPut(live, <<table_name, r.res[2]>>, values) ELSE live
       /\ n_ins' = IF IsOk(r.res) THEN MapPut(n_ins, table_name, Count(n_ins, table_name) + 1)
                   ELSE n_ins
       /\ memo' = <<>>
       /\ snapshot' = None
       /\ UNCHANGED n_del

DeleteRecordOf(max, table_name, record_id) ==
    /\ pc = "open"
    /\ \E r \in {StorageEngine_delete_record(storage, table_name, record_id)} :
       /\ Call(max, "delete_record", <<table_name, record_id>>, r)
       /\ live' = MapRemove(live, <<table_name, record_id>>)
       /\ n_del' = IF IsOk(r.res) THEN MapPut(n_del, table_name, Count(n_del, table_name) + 1)
                   ELSE n_del
       /\ memo' = <<>>
       /\ snapshot' = None
       /\ UNCHANGED n_ins

UpdateRecordOf(max, table_name, record_id, set_pairs) ==
    /\ pc = "open"
    /\ \E r \in {StorageEngine_update_record(storage, table_name, record_id, set_pairs)} :
       /\ Call(max, "update_record", <<table_name, record_id, set_pairs>>, r)
       /\ live' = MapRemove(live, <<table_name, record_id>>)
       /\ memo' = <<>>
       /\ snapshot' = None
       /\ UNCHANGED <<n_ins, n_del>>

SelectOf(max, plan) ==
    /\ pc = "open"
    /\ steps < max
    /\ \E r \in {Executor_select(storage, plan)} :
       /\ pc' = pc
       /\ steps' = steps + 1
       /\ storage' = r.storage
       /\ base_dir' = SyncDir(base_dir, r.storage)
       /\ last' = [op |-> "select", args |-> <<plan>>, res |-> r.res, before |-> storage,
                   prev |-> IF plan \in DOMAIN memo THEN Some(memo[plan]) ELSE None]
       /\ memo' = MapPut(memo, plan, r.res)
       /\ UNCHANGED <<live, n_ins, n_del, snapshot, cur_page, fn_in, fn_out, buffer_manager, access>>

SaveOf(max) ==
    /\ pc = "open"
    /\ \E r \in StorageEngine_save(storage) :
          /\ Call(max, "save", <<>>, r)
          /\ snapshot' = IF IsOk(r.res) THEN Some(TablesView(r.storage)) ELSE None
          /\ UNCHANGED <<live, n_ins, n_del, memo>>

\* The engine value goes out of scope.
DropEngineOf(max) ==
    /\ pc = "open"
    /\ steps < max
    /\ \E dirs \in StorageEngine_drop(storage, base_dir) : base_dir' = dirs
    /\ storage' = None
    /\ pc' = "dropped"
    /\ last' = [op |-> "drop"]
    /\ steps' = steps + 1
    /\ live' = <<>>
    /\ memo' = <<>>
    /\ UNCHANGED <<n_ins, n_del, snapshot, cur_page, fn_in, fn_out, buffer_manager, access>>

\* StorageEngine::new on the same base_dir and database name.
OpenEngineOf(max) ==
    /\ pc = "dropped"
    /\ steps < max
    /\ storage' = StorageEngine_new(base_dir, None)
    /\ base_dir' = SyncDir(base_dir, storage')
    /\ pc' = "open"
    /\ last' = [op |-> "new"]
    /\ steps' = steps + 1
    /\ UNCHANGED <<live, n_ins, n_del, memo, snapshot, cur_page, fn_in, fn_out, buffer_manager, access>>

SelectAll(table_name) ==
    [table_name |-> Some(table_name), columns |-> <<"Wildcard">>,
     conditions |-> None, order_by |-> None]

(***************************************************************************)
(* SpecWide: a session that creates table t and then inserts rows of three *)
(* widths, deletes live records and scans the table, on a pool of          *)
(* BUFFER_POOL_SIZE pages.                                                 *)
(***************************************************************************)
WideRows ==
    {<<Value_Null, Value_String(600)>>,
     <<Value_Null, Value_String(29500)>>,
     <<Value_Null, Value_String(29600)>>}

WideCreateTable ==
    /\ "t" \notin TablesOf(storage)
    /\ CreateTableOf(MaxWideSteps, "t", TestColumns)

WideInsert ==
    /\ "t" \in TablesOf(storage)
    /\ \E values \in WideRows : InsertRecordOf(MaxWideSteps, "t", values)

WideDelete ==
    \E key \in DOMAIN live : DeleteRecordOf(MaxWideSteps, key[1], key[2])

WideSelect ==
    /\ "t" \in TablesOf(storage)
    /\ SelectOf(MaxWideSteps, SelectAll("t"))

InitWide == InitSession

NextWide == WideCreateTable \/ WideInsert \/ WideDelete \/ WideSelect

SpecWide == InitWide /\ [][NextWide]_vars

\* The rows get_all_records yields with record id id.
RowsWithId(records, id) ==
    SelectSeq(records, LAMBDA record : record.id = id)

\* C2: every record id R that a successful insert returned, and that no
\* delete or update has targeted since, reads back the inserted values:
\* Table::get_record(R) returns them, and get_all_records returns exactly
\* one row carrying id R, with those values.
C2_ReadYourWrites ==
    pc = "open" =>
        \A key \in DOMAIN live :
            LET db == storage.databases[CurrentName(storage)]
                one == Table_get_record(db.tables[key[1]],
                                        db.persistence.buffer_manager, key[2]).res
                all == StorageEngine_get_all_records(storage, key[1]).res
            IN /\ one = Ok(Record_with_id(key[2], live[key]))
               /\ IsOk(all)
               /\ RowsWithId(all[2], key[2]) = <<Record_with_id(key[2], live[key])>>

\* C3: on every table, get_all_records succeeds and returns as many records
\* as there were successful inserts minus successful deletes.
C3_RecordCount ==
    pc = "open" =>
        \A t \in TablesOf(storage) :
            LET all == StorageEngine_get_all_records(storage, t).res
            IN IsOk(all) /\ Len(all[2]) = Count(n_ins, t) - Count(n_del, t)

\* C10: a SELECT plan executed again with no create_table, insert, update
\* or delete since its last execution returns what that execution returned.
C10_SelectDeterminism ==
    (last.op = "select" /\ IsSome(last.prev)) => last.res = last.prev[1]

(***************************************************************************)
(* SpecPersist: create_table and insert_record calls, save, the drop of    *)
(* the engine and a new engine on the same base_dir.                       *)
(***************************************************************************)
PersistTables == {"t", "u"}

PersistRows == {<<Value_Int(1), Value_String(1)>>, <<Value_Null, Value_String(29600)>>}

PersistCreateTable ==
    \E table_name \in PersistTables :
        CreateTableOf(MaxPersistSteps, table_name, TestColumns)

PersistInsert ==
    \E values \in PersistRows : InsertRecordOf(MaxPersistSteps, "t", values)

PersistSave == SaveOf(MaxPersistSteps)

PersistDrop == DropEngineOf(MaxPersistSteps)

PersistOpen == OpenEngineOf(MaxPersistSteps)

InitPersist == InitSession

NextPersist ==
    PersistCreateTable \/ PersistInsert \/ PersistSave \/ PersistDrop \/ PersistOpen

SpecPersist == InitPersist /\ [][NextPersist]_vars

\* C1: a new engine opened on the base_dir of an engine that was saved and
\* then dropped, with no call between the save and the drop, has every
\* table of the saved engine with the same column list, and get_all_records
\* on each returns the same multiset of rows as before the save.
C1_PersistenceRoundTrip ==
    (pc = "open" /\ last.op = "new" /\ IsSome(snapshot)) =>
        \A t \in DOMAIN snapshot[1] :
            LET columns == StorageEngine_get_table_columns(storage, t)
                all == StorageEngine_get_all_records(storage, t).res
            IN /\ columns = Ok(snapshot[1][t].columns)
               /\ IsOk(all)
               /\ BagOfRows(all[2]) = snapshot[1][t].rows

(***************************************************************************)
(* Spec: a session of at most MaxSteps calls on table t, valid and invalid *)
(* arguments alike.                                                        *)
(***************************************************************************)
Rows ==
    {<<Value_Int(1), Value_String(1)>>,
     <<Value_Null, Value_String(29600)>>,
     <<Value_Int(1)>>}

RecordIds == {RecordId_new(page_id, slot) : page_id \in 0..1, slot \in 0..1}

SetPairs ==
    {<<<<"id", Value_Int(2)>>>>,
     <<<<"id", Value_Int(1)>>>>,
     <<<<"name", Value_String(2)>>, <<"id", Value_Null>>>>,
     <<<<"name", Value_Int(1)>>>>,
     <<<<"nope", Value_Int(1)>>>>}

Plans ==
    {SelectAll("t"),
     [table_name |-> Some("t"),
      columns |-> <<"Columns", <<[expr |-> <<"Column", "name">>, alias |-> None,
                                  original_text |-> "name"]>>>>,
      conditions |-> Some(<<"Expression",
                            <<"Binary", "eq", <<"Column", "id">>, <<"Value", Value_Int(1)>>>>>>),
      order_by |-> Some(<<OrderItem("name", "Desc")>>)]}

CreateTable == CreateTableOf(MaxSteps, "t", TestColumns)

InsertRecord == \E values \in Rows : InsertRecordOf(MaxSteps, "t", values)

DeleteRecord == \E record_id \in RecordIds : DeleteRecordOf(MaxSteps, "t", record_id)

UpdateRecord ==
    \E record_id \in RecordIds : \E set_pairs \in SetPairs :
        UpdateRecordOf(MaxSteps, "t", record_id, set_pairs)

Select == \E plan \in Plans : SelectOf(MaxSteps, plan)

Save == SaveOf(MaxSteps)

Init == InitSession

Next == CreateTable \/ InsertRecord \/ DeleteRecord \/ UpdateRecord \/ Select \/ Save

Spec == Init /\ [][Next]_vars

\* The columns declared unique or primary key, by position.
UniqueColumns(columns) ==
    {c \in DOMAIN columns : columns[c].unique \/ columns[c].is_primary}

ColumnsOf(se, table_name) == se.databases[CurrentName(se)].tables[table_name].columns

\* C4: for every column declared unique (or primary key) and every pair of
\* distinct live records of a table, the two values in that column are
\* unequal or both Null; an insert_record or update_record that fails
\* leaves the records of the table as they were.
C4_Uniqueness ==
    /\ \A t \in TablesOf(storage) :
          LET records == TableRecords(storage, t)
          IN \A c \in UniqueColumns(ColumnsOf(storage, t)) :
                \A i, j \in DOMAIN records :
                    i # j => \/ records[i].data[c] # records[j].data[c]
                             \/ (records[i].data[c] = Value_Null
                                 /\ records[j].data[c] = Value_Null)
    /\ (/\ last.op \in {"insert_record", "update_record"}
        /\ ~IsOk(last.res)
        /\ last.args[1] \in TablesOf(last.before))
          => TableRecords(storage, last.args[1]) = TableRecords(last.before, last.args[1])

\* The value update_record assigns to column col_name: that of the last
\* pair naming it, as an Option.
RECURSIVE Assigned(_, _)
Assigned(set_pairs, col_name) ==
    IF set_pairs = <<>> THEN None
    ELSE IF set_pairs[Len(set_pairs)][1] = col_name THEN Some(set_pairs[Len(set_pairs)][2])
    ELSE Assigned(SubSeq(set_pairs, 1, Len(set_pairs) - 1), col_name)

\* C7: a successful update_record on record id R keeps a record at R (same
\* page id and slot), gives it the assigned values in the assigned columns
\* and its old values in the others, and leaves the id and the values of
\* every other record of the table unchanged.
C7_RecordIdStability ==
    (last.op = "update_record" /\ IsOk(last.res)) =>
        LET t == last.args[1]
            R == last.args[2]
            set_pairs == last.args[3]
            columns == ColumnsOf(storage, t)
            b == TableRecords(last.before, t)
            a == TableRecords(storage, t)
        IN /\ Len(a) = Len(b)
           /\ \E i \in DOMAIN b : b[i].id = R
           /\ \A i \in DOMAIN a :
                 /\ a[i].id = b[i].id
                 /\ IF a[i].id = R
                    THEN \A c \in DOMAIN columns :
                            a[i].data[c] =
                                IF IsSome(Assigned(set_pairs, columns[c].name))
                                THEN Assigned(set_pairs, columns[c].name)[1]
                                ELSE b[i].data[c]
                    ELSE a[i].data = b[i].data

\* A successful update_record that changed a record of a table holding
\* another record in a lower slot or page.
C7_Witness ==
    /\ last.op = "update_record"
    /\ IsOk(last.res)
    /\ TableRecords(storage, last.args[1]) # TableRecords(last.before, last.args[1])
    /\ \E i \in DOMAIN TableRecords(storage, last.args[1]) :
          /\ i > 1
          /\ TableRecords(storage, last.args[1])[i].id = last.args[2]

(***************************************************************************)
(* SpecCondition: Condition::evaluate applied to every condition and       *)
(* record below, on the columns of TestColumns.                            *)
(***************************************************************************)
ConditionExprs ==
    {<<"Column", "id">>,
     <<"Column", "name">>,
     <<"Column", "nope">>,
     <<"Value", Value_Null>>,
     <<"Value", Value_Boolean(TRUE)>>,
     <<"Binary", "eq", <<"Column", "id">>, <<"Value", Value_Int(1)>>>>,
     <<"Binary", "lt", <<"Column", "name">>, <<"Column", "id">>>>}

ConditionInputs ==
    {<<variant, e>> : variant \in {"Expression", "IsNull", "IsNotNull"}, e \in ConditionExprs}
        \cup {<<"Constant", b>> : b \in BOOLEAN}

ConditionRecords ==
    {Record_with_id(RecordId_new(0, 0), data) :
        data \in {<<Value_Int(1), Value_String(1)>>,
                  <<Value_Int(2), Value_Null>>,
                  <<Value_Null, Value_String(2)>>,
                  <<Value_String(1), Value_String(1)>>}}

InitCondition ==
    /\ IdleStorage
    /\ IdleCall
    /\ IdleBuffer
    /\ IdlePage
    /\ fn_in \in [op : {"none"}, condition : ConditionInputs, record : ConditionRecords]
    /\ fn_out = None

EvaluateCondition ==
    /\ fn_in.op = "none"
    /\ fn_in' = [fn_in EXCEPT !.op = "evaluate"]
    /\ fn_out' = Some(Condition_evaluate(fn_in.condition, fn_in.record, TestColumns))
    /\ UNCHANGED <<storage_vars, call_vars, cur_page, buffer_manager, access>>

NextCondition == EvaluateCondition

SpecCondition == InitCondition /\ [][NextCondition]_vars

\* C12: Condition::evaluate panics on no variant; on Expression(e) it
\* returns the Boolean e evaluates to and an error when e fails or is not
\* Boolean; on IsNull(e) it returns true exactly when e evaluates to Null,
\* on IsNotNull(e) the negation, and on Constant(b) it returns b.
C12_ConditionTotal ==
    (fn_in.op = "evaluate") =>
        LET condition == fn_in.condition
            out == fn_out[1]
            v == Expression_evaluate(condition[2], fn_in.record, TestColumns)
        IN /\ ~IsPanic(out)
           /\ condition[1] = "Expression" =>
                  IF IsOk(v) /\ Tag(v[2]) = "Boolean" THEN out = Ok(v[2][2]) ELSE out[1] = "Err"
           /\ (condition[1] = "IsNull" /\ IsOk(v)) => out = Ok(Tag(v[2]) = "Null")
           /\ (condition[1] = "IsNotNull" /\ IsOk(v)) => out = Ok(Tag(v[2]) # "Null")
           /\ condition[1] = "Constant" => out = Ok(condition[2])

(***************************************************************************)
(* SpecStmt: a session that fills table t through the storage engine and   *)
(* then runs SELECT, UPDATE and DELETE plans with a WHERE condition.       *)
(***************************************************************************)
StmtRows ==
    {<<Value_Int(1), Value_String(1)>>,
     <<Value_Int(2), Value_String(1)>>,
     <<Value_Null, Value_String(3)>>,
     <<Value_String(1), Value_String(1)>>}

StmtConditions ==
    {<<"Expression", <<"Binary", "eq", <<"Column", "id">>, <<"Value", Value_Int(1)>>>>>>,
     <<"Expression", <<"Binary", "le", <<"Column", "name">>, <<"Column", "id">>>>>>,
     <<"Expression", <<"Binary", "eq", <<"Column", "nope">>, <<"Value", Value_Int(1)>>>>>>,
     <<"Expression", <<"Column", "id">>>>}

StmtSetPairs == <<<<"name", Value_String(2)>>>>

StmtCreateTable == CreateTableOf(MaxStmtSteps, "t", TestColumns)

StmtInsert == \E values \in StmtRows : InsertRecordOf(MaxStmtSteps, "t", values)

StmtSelect ==
    \E condition \in StmtConditions :
        SelectOf(MaxStmtSteps, [SelectAll("t") EXCEPT !.conditions = Some(condition)])

StmtUpdate ==
    /\ pc = "open"
    /\ \E condition \in StmtConditions :
       \E plan \in {[table_name |-> "t", set_pairs |-> StmtSetPairs,
                      conditions |-> Some(condition)]} :
       \E r \in {Executor_update(storage, plan)} :
          /\ Call(MaxStmtSteps, "update", <<plan>>, r)
          /\ live' = <<>>
          /\ memo' = <<>>
          /\ snapshot' = None
          /\ UNCHANGED <<n_ins, n_del>>

StmtDelete ==
    /\ pc = "open"
    /\ \E condition \in StmtConditions :
       \E plan \in {[table_name |-> "t", conditions |-> Some(condition)]} :
       \E r \in {Executor_delete(storage, plan)} :
          /\ Call(MaxStmtSteps, "delete", <<plan>>, r)
          /\ live' = <<>>
          /\ memo' = <<>>
          /\ snapshot' = None
          /\ UNCHANGED <<n_ins, n_del>>

InitStmt == InitSession

NextStmt == StmtCreateTable \/ StmtInsert \/ StmtSelect \/ StmtUpdate \/ StmtDelete

SpecStmt == InitStmt /\ [][NextStmt]_vars

\* The records on which the condition evaluates to Ok(true).
Matching(records, condition, columns) ==
    SelectSeq(records, LAMBDA record : Condition_evaluate(condition, record, columns) = Ok(TRUE))

\* The records on which the evaluation of the condition returns an error.
Failing(records, condition, columns) ==
    SelectSeq(records, LAMBDA record : Condition_evaluate(condition, record, columns)[1] = "Err")

\* C11: a SELECT, UPDATE or DELETE with a WHERE condition on an existing
\* table completes successfully even when the condition fails on some
\* rows, and acts on exactly the rows on which the condition evaluates to
\* true: SELECT returns them, UPDATE assigns to them and to no other row,
\* DELETE removes them and no other row.
C11_ConditionDemotion ==
    (/\ last.op \in {"select", "update", "delete"}
     /\ "t" \in TablesOf(last.before)) =>
        LET before == TableRecords(last.before, "t")
            after == TableRecords(storage, "t")
            m == Matching(before, last.args[1].conditions[1], TestColumns)
        IN /\ IsOk(last.res)
           /\ last.op = "select" =>
                  /\ last.res[2].rows = [i \in DOMAIN m |-> m[i].data]
                  /\ after = before
           /\ last.op = "delete" =>
                  after = SelectSeq(before, LAMBDA record : record \notin Range(m))
           /\ last.op = "update" =>
                  after = [i \in DOMAIN before |->
                              IF before[i] \in Range(m)
                              THEN [before[i] EXCEPT !.data[2] = StmtSetPairs[1][2]]
                              ELSE before[i]]

\* A DELETE whose condition failed on one row, was false on another and
\* true on a third, which it removed.
C11_Witness ==
    /\ last.op = "delete"
    /\ "t" \in TablesOf(last.before)
    /\ IsOk(last.res)
    /\ LET before == TableRecords(last.before, "t")
           c == last.args[1].conditions[1]
       IN /\ Failing(before, c, TestColumns) # <<>>
          /\ Matching(before, c, TestColumns) # <<>>
          /\ Len(Failing(before, c, TestColumns)) + Len(Matching(before, c, TestColumns))
                < Len(before)
          /\ Len(TableRecords(storage, "t")) < Len(before)

(***************************************************************************)
(* SpecDb: a session on an engine with up to two databases, "default" and  *)
(* "a", each with at most the table t.  The engine is constructed with or  *)
(* without a database name, and may be dropped and constructed again on    *)
(* the same base_dir.  last.deselected records that the current database   *)
(* was removed by drop_database and that no use_database, create_database  *)
(* or construction has succeeded since.                                    *)
(***************************************************************************)
DbNames == {DEFAULT_DB_NAME, "a"}

StartNames == {None, Some("a")}

DbRow == <<Value_Int(1), Value_String(1)>>

DbSetPairs == <<<<"name", Value_String(2)>>>>

DbRecordId == RecordId_new(0, 0)

TableOps ==
    {"create_table", "drop_table", "get_table", "insert_record", "update_record",
     "delete_record", "get_all_records"}

\* One call on the open engine: r is [storage, res], dirs the files under
\* base_dir the call leaves for the databases that are not open.
DbCall(op, args, r, dirs, deselected) ==
    /\ steps < MaxDbSteps
    /\ storage' = r.storage
    /\ base_dir' = SyncDir(dirs, r.storage)
    /\ last' = [op |-> op, args |-> args, res |-> r.res, before |-> storage,
                deselected |-> deselected]
    /\ steps' = steps + 1
    /\ UNCHANGED <<pc, live, n_ins, n_del, memo, snapshot, cur_page, fn_in, fn_out, buffer_manager, access>>

DbCreateDatabase ==
    /\ pc = "open"
    /\ \E name \in DbNames :
       \E r \in {StorageEngine_create_database(storage, base_dir, name)} :
          DbCall("create_database", <<name>>, r, base_dir,
                 IF IsOk(r.res) THEN FALSE ELSE last.deselected)

DbDropDatabase ==
    /\ pc = "open"
    /\ \E name \in DbNames :
       \E r \in StorageEngine_drop_database(storage, base_dir, name) :
          DbCall("drop_database", <<name>>, r, r.dirs,
                 IF IsOk(r.res) /\ storage.current_database = Some(name)
                 THEN TRUE ELSE last.deselected)

DbUseDatabase ==
    /\ pc = "open"
    /\ \E name \in DbNames :
       \E r \in {StorageEngine_use_database(storage, name)} :
          DbCall("use_database", <<name>>, r, base_dir,
                 IF IsOk(r.res) THEN FALSE ELSE last.deselected)

DbCreateTable ==
    /\ pc = "open"
    /\ DbCall("create_table", <<"t">>, StorageEngine_create_table(storage, "t", TestColumns),
              base_dir, last.deselected)

DbDropTable ==
    /\ pc = "open"
    /\ DbCall("drop_table", <<"t">>, StorageEngine_drop_table(storage, "t"),
              base_dir, last.deselected)

DbGetTable ==
    /\ pc = "open"
    /\ DbCall("get_table", <<"t">>,
              [storage |-> storage, res |-> StorageEngine_get_table(storage, "t")],
              base_dir, last.deselected)

DbInsertRecord ==
    /\ pc = "open"
    /\ DbCall("insert_record", <<"t">>, StorageEngine_insert_record(storage, "t", DbRow),
              base_dir, last.deselected)

DbUpdateRecord ==
    /\ pc = "open"
    /\ DbCall("update_record", <<"t">>,
              StorageEngine_update_record(storage, "t", DbRecordId, DbSetPairs),
              base_dir, last.deselected)

DbDeleteRecord ==
    /\ pc = "open"
    /\ DbCall("delete_record", <<"t">>, StorageEngine_delete_record(storage, "t", DbRecordId),
              base_dir, last.deselected)

DbGetAllRecords ==
    /\ pc = "open"
    /\ DbCall("get_all_records", <<"t">>, StorageEngine_get_all_records(storage, "t"),
              base_dir, last.deselected)

DbSave ==
    /\ pc = "open"
    /\ \E r \in StorageEngine_save(storage) :
          DbCall("save", <<>>, r, base_dir, last.deselected)

\* The engine value goes out of scope.
DbDropEngine ==
    /\ pc = "open"
    /\ steps < MaxDbSteps
    /\ \E dirs \in StorageEngine_drop(storage, base_dir) : base_dir' = dirs
    /\ storage' = None
    /\ pc' = "dropped"
    /\ last' = [op |-> "drop", deselected |-> FALSE]
    /\ steps' = steps + 1
    /\ UNCHANGED <<live, n_ins, n_del, memo, snapshot, cur_page, fn_in, fn_out, buffer_manager, access>>

\* StorageEngine::new(Some(base_dir), db_name) on the files left.
DbOpenEngine ==
    /\ pc = "dropped"
    /\ steps < MaxDbSteps
    /\ \E db_name \in StartNames :
          /\ storage' = StorageEngine_new(base_dir, db_name)
          /\ last' = [op |-> "new", args |-> <<db_name>>, dirs |-> base_dir,
                      deselected |-> FALSE]
    /\ base_dir' = SyncDir(base_dir, storage')
    /\ pc' = "open"
    /\ steps' = steps + 1
    /\ UNCHANGED <<live, n_ins, n_del, memo, snapshot, cur_page, fn_in, fn_out, buffer_manager, access>>

InitDb ==
    /\ \E db_name \in StartNames :
          /\ storage = StorageEngine_new(<<>>, db_name)
          /\ last = [op |-> "new", args |-> <<db_name>>, dirs |-> <<>>, deselected |-> FALSE]
    /\ base_dir = SyncDir(<<>>, storage)
    /\ pc = "open"
    /\ steps = 0
    /\ live = <<>>
    /\ n_ins = <<>>
    /\ n_del = <<>>
    /\ memo = <<>>
    /\ snapshot = None
    /\ IdlePage
    /\ IdleFn
    /\ IdleBuffer

NextDb ==
    \/ DbCreateDatabase
    \/ DbDropDatabase
    \/ DbUseDatabase
    \/ DbCreateTable
    \/ DbDropTable
    \/ DbGetTable
    \/ DbInsertRecord
    \/ DbUpdateRecord
    \/ DbDeleteRecord
    \/ DbGetAllRecords
    \/ DbSave
    \/ DbDropEngine
    \/ DbOpenEngine

SpecDb == InitDb /\ [][NextDb]_vars

\* The live records of table table_name of database name, in scan order.
RecordsIn(se, name, table_name) ==
    LET db == se.databases[name]
        page_ids == db.tables[table_name].page_ids
    IN Flatten([k \in DOMAIN page_ids |->
                   Page_iter_records(PageView(db.persistence.buffer_manager, page_ids[k]))])

\* C13: while database n is the one selected (by use_database, or by the
\* selection create_database and the constructor make), a table operation
\* leaves the selection, the set of databases and every database other
\* than n as they were, answers from the tables of n alone (a table t that
\* n lacks is NotFound whatever the other databases hold), and makes its
\* change in n.
C13_RoutingIsolation ==
    (/\ last.op \in TableOps
     /\ IsSome(last.before.current_database)) =>
        LET n == last.before.current_database[1]
            pre == last.before.databases[n]
            post == storage.databases[n]
        IN /\ storage.current_database = last.before.current_database
           /\ DOMAIN storage.databases = DOMAIN last.before.databases
           /\ \A m \in DOMAIN storage.databases \ {n} :
                 storage.databases[m] = last.before.databases[m]
           /\ IF "t" \notin DOMAIN pre.tables
              THEN /\ last.op # "create_table" => last.res = Err("NotFound")
                   /\ (last.op = "create_table" /\ IsOk(last.res)) =>
                          /\ "t" \in DOMAIN post.tables
                          /\ RecordsIn(storage, n, "t") = <<>>
              ELSE /\ last.op = "create_table" => ~IsOk(last.res)
                   /\ last.op = "get_table" => last.res = Ok(pre.tables["t"])
                   /\ (last.op = "get_all_records" /\ IsOk(last.res)) =>
                          last.res = Ok(RecordsIn(last.before, n, "t"))
                   /\ (last.op = "insert_record" /\ IsOk(last.res)) =>
                          Len(RecordsIn(storage, n, "t"))
                            = Len(RecordsIn(last.before, n, "t")) + 1
                   /\ (last.op = "delete_record" /\ IsOk(last.res)) =>
                          Len(RecordsIn(storage, n, "t"))
                            = Len(RecordsIn(last.before, n, "t")) - 1
                   /\ (last.op = "drop_table" /\ IsOk(last.res)) =>
                          "t" \notin DOMAIN post.tables

\* use_database("a") has succeeded and get_table reports as missing the
\* table t, which database "default" holds with a record.
C13_Witness ==
    /\ last.op = "get_table"
    /\ last.res = Err("NotFound")
    /\ storage.current_database = Some("a")
    /\ DEFAULT_DB_NAME \in DOMAIN storage.databases
    /\ "t" \in DOMAIN storage.databases[DEFAULT_DB_NAME].tables
    /\ RecordsIn(storage, DEFAULT_DB_NAME, "t") # <<>>

\* C14: when StorageEngine::new(base_dir, Some(n)) has returned, database
\* n exists and table operations are routed to n, whatever directories
\* base_dir held.
C14_StartupSelection ==
    (last.op = "new" /\ IsSome(last.args[1])) =>
        /\ last.args[1][1] \in DOMAIN storage.databases
        /\ StorageEngine_current_database(storage) = Ok(last.args[1][1])

\* C15: create_table of a name the current database already has (in its
\* table map or in its catalog) fails, drop_table of a name its table map
\* lacks fails, both leave the engine (table maps, catalogs, pages) as it
\* was, and after a successful drop_table get_table fails.
C15_TableDdlErrors ==
    (/\ last.op \in {"create_table", "drop_table"}
     /\ IsOk(StorageEngine_current_database(last.before))) =>
        LET pre == last.before.databases[CurrentName(last.before)]
            failing == IF last.op = "create_table"
                       THEN "t" \in DOMAIN pre.tables \/ "t" \in DOMAIN pre.catalog
                       ELSE "t" \notin DOMAIN pre.tables
        IN /\ failing => (~IsOk(last.res) /\ storage = last.before)
           /\ (last.op = "drop_table" /\ IsOk(last.res)) =>
                  ~IsOk(StorageEngine_get_table(storage, "t"))

\* C16: once drop_database has removed the current database, every table
\* operation returns an error until use_database or create_database
\* succeeds.
C16_NoSelectionAfterDrop ==
    (last.op \in TableOps /\ last.deselected) => ~IsOk(last.res)

(***************************************************************************)
(* SpecBuffer: the operations of one BufferManager on a pool of            *)
(* BUFFER_POOL_SIZE pages over a new data file.  The holder of the &mut    *)
(* Page that get_page_mut returns may insert a record into the page.       *)
(***************************************************************************)
BufPageIds == 0..(PoolPages + 1)

BufRow == <<Value_Int(1)>>

\* One call on the buffer manager: r is [bm, res].
BufCall(op, args, r) ==
    /\ steps < MaxBufSteps
    /\ buffer_manager' = r.bm
    /\ last' = [op |-> op, args |-> args, res |-> r.res, before |-> buffer_manager,
                accessed |-> access]
    /\ steps' = steps + 1
    /\ access' = IF op \in {"get_page", "get_page_mut", "create_page"} /\ IsOk(r.res)
                 THEN Append(Retain(access, r.res[2]), r.res[2])
                 ELSE access
    /\ UNCHANGED <<storage_vars, cur_page, fn_in, fn_out>>

BufCreatePage ==
    \E r \in {BufferManager_create_page(buffer_manager)} : BufCall("create_page", <<>>, r)

BufGetPage ==
    \E page_id \in BufPageIds :
    \E r \in {BufferManager_get_page(buffer_manager, page_id)} :
        BufCall("get_page", <<page_id>>, r)

BufGetPageMut ==
    \E page_id \in BufPageIds :
    \E write \in BOOLEAN :
    \E g \in {BufferManager_get_page_mut(buffer_manager, page_id)} :
        BufCall("get_page_mut", <<page_id, write>>,
                IF IsOk(g.res) /\ write
                THEN [g EXCEPT !.bm.pages[page_id] =
                                  Page_insert_record(g.bm.pages[page_id], BufRow).page]
                ELSE g)

BufPinPage ==
    \E page_id \in BufPageIds :
    \E r \in {BufferManager_pin_page(buffer_manager, page_id)} :
        BufCall("pin_page", <<page_id>>, r)

BufUnpinPage ==
    \E page_id \in BufPageIds :
    \E r \in {[bm |-> BufferManager_unpin_page(buffer_manager, page_id), res |-> Ok(Unit)]} :
        BufCall("unpin_page", <<page_id>>, r)

BufFlushPage ==
    \E page_id \in BufPageIds :
    \E r \in {BufferManager_flush_page(buffer_manager, page_id)} :
        BufCall("flush_page", <<page_id>>, r)

BufFlushAllPages ==
    \E r \in BufferManager_flush_all_pages(buffer_manager) :
        BufCall("flush_all_pages", <<>>, r)

InitBuffer ==
    /\ IdleStorage
    /\ IdleCall
    /\ IdlePage
    /\ IdleFn
    /\ buffer_manager = BufferManager_new(<<>>)
    /\ access = <<>>

NextBuffer ==
    \/ BufCreatePage
    \/ BufGetPage
    \/ BufGetPageMut
    \/ BufPinPage
    \/ BufUnpinPage
    \/ BufFlushPage
    \/ BufFlushAllPages

SpecBuffer == InitBuffer /\ [][NextBuffer]_vars

Cached(bm) == DOMAIN bm.pages

PoolFull(bm) == Cardinality(Cached(bm)) >= BUFFER_POOL_SIZE

\* The pages the last call removed from the cache.
Evicted == Cached(last.before) \ Cached(buffer_manager)

\* The last call is one that had to make room: a create_page, or a
\* get_page / get_page_mut of an uncached id, on a full pool.
NeedsRoom ==
    /\ last.op \in {"get_page", "get_page_mut", "create_page"}
    /\ PoolFull(last.before)
    /\ last.op # "create_page" => last.args[1] \notin Cached(last.before)

\* C17: the pinned set is a subset of the cached page ids, and a call
\* leaves in the cache every page that was pinned when it was made (the
\* pin itself ending only by unpin_page of that page).
C17_PinnedNeverEvicted ==
    /\ buffer_manager.pinned_pages \subseteq Cached(buffer_manager)
    /\ last.op # "none" =>
          /\ last.before.pinned_pages \subseteq Cached(buffer_manager)
          /\ \A id \in last.before.pinned_pages :
                \/ id \in buffer_manager.pinned_pages
                \/ (last.op = "unpin_page" /\ last.args[1] = id)

\* A call that made room in a full pool whose least recently used page
\* was pinned: it evicted another page and the pinned one is still cached.
C17_Witness ==
    /\ NeedsRoom
    /\ IsOk(last.res)
    /\ Evicted # {}
    /\ last.before.lru_list # <<>>
    /\ Head(last.before.lru_list) \in last.before.pinned_pages
    /\ Head(last.before.lru_list) \in Cached(buffer_manager)

\* The position of a page in the history of accesses, 0 when it has none.
AccessRank(accessed, id) == PositionFrom(accessed, LAMBDA x : x = id, 1)

\* C18: the page a get_page, get_page_mut or create_page evicts from a
\* full pool is unpinned, and no other unpinned cached page has an older
\* most recent access (by get_page, get_page_mut or create_page); the page
\* just accessed is the most recently used one.
C18_LruVictim ==
    (last.op \in {"get_page", "get_page_mut", "create_page"}) =>
        /\ \A v \in Evicted :
              /\ v \notin last.before.pinned_pages
              /\ \A q \in Cached(last.before) \ last.before.pinned_pages :
                    AccessRank(last.accessed, q) > 0 =>
                        AccessRank(last.accessed, v) <= AccessRank(last.accessed, q)
        /\ IsOk(last.res) =>
              buffer_manager.lru_list[Len(buffer_manager.lru_list)] = last.res[2]

\* C19: on a full pool whose cached pages are all pinned, create_page and
\* get_page / get_page_mut of an uncached id return an error and leave
\* the cached pages as they were.
C19_AllPinnedFails ==
    (NeedsRoom /\ Cached(last.before) \subseteq last.before.pinned_pages) =>
        /\ ~IsOk(last.res)
        /\ buffer_manager.pages = last.before.pages

\* A create_page refused on a full pool of pinned pages.
C19_Witness ==
    /\ NeedsRoom
    /\ last.op = "create_page"
    /\ Cached(last.before) \subseteq last.before.pinned_pages
    /\ ~IsOk(last.res)

\* C20: the cache never holds more than BUFFER_POOL_SIZE pages.
C20_CapacityBound == Cardinality(Cached(buffer_manager)) <= BUFFER_POOL_SIZE

\* A page was brought into a full pool and the pool is still full.
C20_Witness ==
    /\ last.op \in {"get_page", "get_page_mut", "create_page", "pin_page"}
    /\ PoolFull(last.before)
    /\ IsOk(last.res)
    /\ Cached(buffer_manager) \ Cached(last.before) # {}
    /\ Cardinality(Cached(buffer_manager)) = BUFFER_POOL_SIZE

(***************************************************************************)
(* SpecFile: the life of one data file.  A BufferManager is opened on it,  *)
(* creates pages, writes to them and flushes; it is dropped, which closes  *)
(* the file, and a new one is opened on the file that was left.  While the *)
(* file is closed base_dir holds its content.  last.allocated is the       *)
(* history of the ids allocate_page has returned since the file was made.  *)
(***************************************************************************)
FilePageIds == 0..2

FileCall(op, args, r, allocated) ==
    /\ pc = "open"
    /\ steps < MaxFileSteps
    /\ buffer_manager' = r.bm
    /\ last' = [op |-> op, args |-> args, res |-> r.res, before |-> buffer_manager,
                allocated |-> allocated]
    /\ steps' = steps + 1
    /\ UNCHANGED <<storage, base_dir, pc, live, n_ins, n_del, memo, snapshot,
                   cur_page, fn_in, fn_out, access>>

\* create_page: allocate_page returns disk_manager.next_page_id whether or
\* not the eviction that follows succeeds.
FileCreatePage ==
    /\ pc = "open"
    /\ \E r \in {BufferManager_create_page(buffer_manager)} :
          FileCall("create_page", <<buffer_manager.disk_manager.next_page_id>>, r,
                   Append(last.allocated, buffer_manager.disk_manager.next_page_id))

FileWrite ==
    /\ pc = "open"
    /\ \E page_id \in FilePageIds :
       \E g \in {BufferManager_get_page_mut(buffer_manager, page_id)} :
          FileCall("get_page_mut", <<page_id>>,
                   IF IsOk(g.res)
                   THEN [g EXCEPT !.bm.pages[page_id] =
                                     Page_insert_record(g.bm.pages[page_id], BufRow).page]
                   ELSE g,
                   last.allocated)

FileFlushAllPages ==
    /\ pc = "open"
    /\ \E r \in BufferManager_flush_all_pages(buffer_manager) :
          FileCall("flush_all_pages", <<>>, r, last.allocated)

\* Drop of the BufferManager: flush_all_pages, the error being only
\* printed, then the file is closed.
FileClose ==
    /\ pc = "open"
    /\ steps < MaxFileSteps
    /\ \E r \in BufferManager_flush_all_pages(buffer_manager) :
          base_dir' = r.bm.disk_manager.file
    /\ buffer_manager' = None
    /\ pc' = "dropped"
    /\ last' = [op |-> "drop", allocated |-> last.allocated]
    /\ steps' = steps + 1
    /\ UNCHANGED <<storage, live, n_ins, n_del, memo, snapshot,
                   cur_page, fn_in, fn_out, access>>

\* BufferManager::new on the file that was left.
FileOpen ==
    /\ pc = "dropped"
    /\ steps < MaxFileSteps
    /\ buffer_manager' = BufferManager_new(base_dir)
    /\ pc' = "open"
    /\ last' = [op |-> "new", allocated |-> last.allocated]
    /\ steps' = steps + 1
    /\ UNCHANGED <<storage, base_dir, live, n_ins, n_del, memo, snapshot,
                   cur_page, fn_in, fn_out, access>>

InitFile ==
    /\ storage = None
    /\ base_dir = <<>>
    /\ pc = "open"
    /\ live = <<>>
    /\ n_ins = <<>>
    /\ n_del = <<>>
    /\ memo = <<>>
    /\ snapshot = None
    /\ IdlePage
    /\ IdleFn
    /\ buffer_manager = BufferManager_new(<<>>)
    /\ access = <<>>
    /\ last = [op |-> "new", allocated |-> <<>>]
    /\ steps = 0

NextFile == FileCreatePage \/ FileWrite \/ FileFlushAllPages \/ FileClose \/ FileOpen

SpecFile == InitFile /\ [][NextFile]_vars

\* C21: every id allocate_page returns is greater than every id it
\* returned before on this file, across closing and opening the file, and
\* equals the length of the file in pages just before the allocation.
C21_PageIdsNeverRecycled ==
    (last.op = "create_page") =>
        /\ \A k \in 1..(Len(last.allocated) - 1) :
              last.allocated[k] < last.allocated[Len(last.allocated)]
        /\ last.allocated[Len(last.allocated)] = Len(last.before.disk_manager.file)

(***************************************************************************)
(* SpecExec: a session whose statements are INSERT plans of several rows   *)
(* (with and without a column list) and UPDATE and DELETE plans over       *)
(* several records, run by the executor on table t.                        *)
(***************************************************************************)
ExecColumns ==
    <<ColumnDef("id", <<"Int", 11>>, TRUE, FALSE, FALSE),
      ColumnDef("name", <<"Varchar", 30000>>, FALSE, FALSE, FALSE)>>

ExecInsertPlans ==
    {[table_name |-> "t", columns |-> <<>>, rows |-> rows] :
        rows \in {<<<<Value_Int(1), Value_String(1)>>, <<Value_Int(2), Value_String(1)>>>>,
                  <<<<Value_Int(1), Value_String(1)>>, <<Value_String(1), Value_String(1)>>,
                    <<Value_Int(3), Value_String(1)>>>>,
                  <<<<Value_Int(1), Value_String(1)>>, <<Value_Int(2), Value_String(30001)>>>>,
                  <<<<Value_Int(1), Value_String(1)>>, <<Value_Int(2)>>>>}}
    \cup {[table_name |-> "t", columns |-> <<"name", "id">>, rows |-> rows] :
        rows \in {<<<<Value_String(1), Value_Int(1)>>, <<Value_String(2), Value_Int(2)>>>>,
                  <<<<Value_String(1), Value_Int(1)>>, <<Value_Int(2), Value_String(2)>>>>}}
    \cup {[table_name |-> "t", columns |-> <<"id">>, rows |-> rows] :
        rows \in {<<<<Value_Int(1)>>, <<Value_Int(2)>>>>}}
    \cup {[table_name |-> "t", columns |-> <<"name">>, rows |-> rows] :
        rows \in {<<<<Value_String(1)>>, <<Value_String(2)>>>>}}

ExecConditions ==
    {None,
     Some(<<"Expression", <<"Binary", "ge", <<"Column", "id">>, <<"Value", Value_Int(2)>>>>>>)}

ExecSetPairs ==
    {<<<<"name", Value_String(2)>>>>,
     <<<<"name", Value_String(16000)>>>>,
     <<<<"name", Value_Int(2)>>>>}

ExecCreateTable == CreateTableOf(MaxExecSteps, "t", ExecColumns)

ExecInsert ==
    /\ pc = "open"
    /\ \E plan \in ExecInsertPlans :
       \E r \in {Executor_insert(storage, plan)} :
          /\ Call(MaxExecSteps, "insert", <<plan>>, r)
          /\ live' = <<>>
          /\ memo' = <<>>
          /\ snapshot' = None
          /\ UNCHANGED <<n_ins, n_del>>

ExecUpdate ==
    /\ pc = "open"
    /\ \E conditions \in ExecConditions :
       \E set_pairs \in ExecSetPairs :
       \E plan \in {[table_name |-> "t", set_pairs |-> set_pairs,
                      conditions |-> conditions]} :
       \E r \in {Executor_update(storage, plan)} :
          /\ Call(MaxExecSteps, "update", <<plan>>, r)
          /\ live' = <<>>
          /\ memo' = <<>>
          /\ snapshot' = None
          /\ UNCHANGED <<n_ins, n_del>>

ExecDelete ==
    /\ pc = "open"
    /\ \E conditions \in ExecConditions :
       \E plan \in {[table_name |-> "t", conditions |-> conditions]} :
       \E r \in {Executor_delete(storage, plan)} :
          /\ Call(MaxExecSteps, "delete", <<plan>>, r)
          /\ live' = <<>>
          /\ memo' = <<>>
          /\ snapshot' = None
          /\ UNCHANGED <<n_ins, n_del>>

InitExec == InitSession

NextExec == ExecCreateTable \/ ExecInsert \/ ExecUpdate \/ ExecDelete

SpecExec == InitExec /\ [][NextExec]_vars

\* The rows of a sequence of records.
RowsOf(records) == [i \in DOMAIN records |-> records[i].data]

\* The multiset of a sequence of rows.
RowBag(rows) == [v \in Range(rows) |-> Cardinality({i \in DOMAIN rows : rows[i] = v})]

\* The records a WHERE clause selects: all of them without a clause.
Selected(records, conditions, columns) ==
    IF conditions = None THEN records ELSE Matching(records, conditions[1], columns)

\* A value of the type of the column, of a width the column admits.
TypeAdmits(col_def, value) ==
    \/ Tag(value) = "Null"
    \/ Tag(value) = "Int" /\ col_def.data_type[1] = "Int"
    \/ Tag(value) = "String" /\ col_def.data_type[1] = "Varchar"
       /\ value[2] <= col_def.data_type[2]

\* The rows of an INSERT without column list that lie before its first
\* row with a value the column type does not admit.
AdmittedPrefix(rows, columns) ==
    LET bad == {k \in DOMAIN rows : \E c \in DOMAIN rows[k] : ~TypeAdmits(columns[c], rows[k][c])}
    IN IF bad = {} THEN rows
       ELSE SubSeq(rows, 1, (CHOOSE k \in bad : \A q \in bad : k <= q) - 1)

C22_UpdateWitness ==
    /\ last.op = "update"
    /\ "t" \in TablesOf(last.before)
    /\ last.res = Err("IO")
    /\ TableRecords(storage, "t") # TableRecords(last.before, "t")

(***************************************************************************)
(* SpecScript: execute_sql on scripts of up to MaxScriptLen statements.    *)
(***************************************************************************)
ScriptStatements ==
    {<<"CreateTable", [name |-> "t", columns |-> ExecColumns]>>,
     <<"Insert", [table_name |-> "t", columns |-> <<>>,
                  rows |-> <<<<Value_Int(1), Value_String(1)>>>>]>>,
     <<"Insert", [table_name |-> "t", columns |-> <<>>,
                  rows |-> <<<<Value_String(1), Value_String(1)>>>>]>>,
     <<"Insert", [table_name |-> "t", columns |-> <<"id", "name">>,
                  rows |-> <<<<Value_Int(2)>>>>]>>,
     <<"Delete", [table_name |-> "t", conditions |-> None]>>}

Scripts ==
    UNION {[1..n -> ScriptStatements] : n \in 1..MaxScriptLen}

ScriptExecuteSql ==
    /\ pc = "open"
    /\ \E script \in Scripts :
       \E r \in {SimpleDB_execute_sql(storage, script)} :
          /\ Call(MaxScriptSteps, "execute_sql", <<script>>, r)
          /\ live' = <<>>
          /\ memo' = <<>>
          /\ snapshot' = None
          /\ UNCHANGED <<n_ins, n_del>>

InitScript == InitSession

NextScript == ScriptExecuteSql

SpecScript == InitScript /\ [][NextScript]_vars

\* One statement run on its own: its plan executed, or the error of its
\* planning with the engine untouched.
RunStatement(se, stmt) ==
    IF IsOk(Planner_plan(stmt)) THEN Executor_execute(se, Planner_plan(stmt)[2])
    ELSE [storage |-> se, res |-> Planner_plan(stmt)]

\* Every statement of a script run in turn, whatever the earlier results.
RECURSIVE RunAll(_, _, _)
RunAll(se, script, results) ==
    IF script = <<>> THEN [storage |-> se, results |-> results]
    ELSE RunAll(RunStatement(se, Head(script)).storage, Tail(script),
                Append(results, RunStatement(se, Head(script)).res))

\* C23: execute_sql on a script returns one result per statement, the
\* result of a failing statement (in planning or in execution) being an
\* error for that statement only, and every later statement is still
\* planned and executed.
C23_BatchContinues ==
    (last.op = "execute_sql") =>
        /\ IsOk(last.res)
        /\ last.res[2] = RunAll(last.before, last.args[1], <<>>).results
        /\ storage = RunAll(last.before, last.args[1], <<>>).storage

\* The part of C23 on failures in execution: a script whose statements
\* all plan returns one result per statement and runs each statement.
C23_ExecutionFailuresContinue ==
    (/\ last.op = "execute_sql"
     /\ \A i \in DOMAIN last.args[1] : IsOk(Planner_plan(last.args[1][i]))) =>
        /\ IsOk(last.res)
        /\ last.res[2] = RunAll(last.before, last.args[1], <<>>).results
        /\ storage = RunAll(last.before, last.args[1], <<>>).storage

\* A script whose second statement failed in execution and whose third
\* statement was executed and succeeded.
C23_ExecutionWitness ==
    /\ last.op = "execute_sql"
    /\ IsOk(last.res)
    /\ Len(last.res[2]) = 3
    /\ IsOk(last.res[2][1]) /\ ~IsOk(last.res[2][2]) /\ IsOk(last.res[2][3])
    /\ storage # last.before

\* The row an INSERT with a column list stores for a row of values: the
\* value given for each column the list names, Null for the others.
FullRowOf(row, columns, table_columns) ==
    [c \in DOMAIN table_columns |->
        IF \E i \in DOMAIN columns : columns[i] = table_columns[c].name
        THEN row[CHOOSE i \in DOMAIN columns : columns[i] = table_columns[c].name]
        ELSE Value_Null]

\* The NOT NULL columns a column list leaves out.
OmittedNotNull(columns, table_columns) ==
    {c \in DOMAIN table_columns : table_columns[c].not_null
                                  /\ table_columns[c].name \notin Range(columns)}

\* C24: an INSERT with a column list that omits a NOT NULL column fails
\* with a Schema error and inserts nothing; an INSERT with a column list
\* that succeeds has stored, for each of its rows, the supplied values in
\* table column order with Null in the omitted nullable columns.
C24_ColumnListInsert ==
    (/\ last.op = "insert"
     /\ "t" \in TablesOf(last.before)
     /\ last.args[1].columns # <<>>) =>
        LET plan == last.args[1]
            before == RowsOf(TableRecords(last.before, "t"))
            after == RowsOf(TableRecords(storage, "t"))
        IN /\ OmittedNotNull(plan.columns, ExecColumns) # {} =>
                 /\ last.res = Err("Schema")
                 /\ after = before
           /\ IsOk(last.res) =>
                 RowBag(after) =
                     RowBag(before \o [k \in DOMAIN plan.rows |->
                                          FullRowOf(plan.rows[k], plan.columns, ExecColumns)])

\* C24 without the kind of the error: the INSERT that omits a NOT NULL
\* column fails and inserts nothing.
C24_OmittedNotNullFails ==
    (/\ last.op = "insert"
     /\ "t" \in TablesOf(last.before)
     /\ last.args[1].columns # <<>>
     /\ OmittedNotNull(last.args[1].columns, ExecColumns) # {}) =>
        /\ ~IsOk(last.res)
        /\ TableRecords(storage, "t") = TableRecords(last.before, "t")

\* An INSERT (name) on a table whose column id is NOT NULL.
C24_OmittedWitness ==
    /\ last.op = "insert"
    /\ "t" \in TablesOf(last.before)
    /\ last.args[1].columns = <<"name">>
    /\ last.res = Err("Execution")

(***************************************************************************)
(* SpecDdl: the executor runs CREATE/DROP TABLE, CREATE/DROP/USE DATABASE  *)
(* and INSERT plans on an engine of up to two databases.                   *)
(***************************************************************************)
DdlCreateTable ==
    /\ pc = "open"
    /\ \E plan \in {[name |-> "t", columns |-> TestColumns]} :
       \E r \in {Executor_create_table(storage, plan)} :
          DbCall("CreateTable", <<plan>>, r, base_dir, last.deselected)

DdlDropTable ==
    /\ pc = "open"
    /\ \E plan \in {[name |-> "t"]} :
       \E r \in {Executor_drop_table(storage, plan)} :
          DbCall("DropTable", <<plan>>, r, base_dir, last.deselected)

DdlInsert ==
    /\ pc = "open"
    /\ \E plan \in {[table_name |-> "t", columns |-> <<>>, rows |-> <<DbRow>>]} :
       \E r \in {Executor_insert(storage, plan)} :
          DbCall("Insert", <<plan>>, r, base_dir, last.deselected)

DdlCreateDatabase ==
    /\ pc = "open"
    /\ \E name \in DbNames :
       \E r \in {Executor_create_database(storage, base_dir, [name |-> name])} :
          DbCall("CreateDatabase", <<[name |-> name]>>, r, base_dir, last.deselected)

DdlDropDatabase ==
    /\ pc = "open"
    /\ \E name \in DbNames :
       \E r \in Executor_drop_database(storage, base_dir, [name |-> name]) :
          DbCall("DropDatabase", <<[name |-> name]>>, r, r.dirs, last.deselected)

DdlUseDatabase ==
    /\ pc = "open"
    /\ \E name \in DbNames :
       \E r \in {Executor_use_database(storage, [name |-> name])} :
          DbCall("UseDatabase", <<[name |-> name]>>, r, base_dir, last.deselected)

InitDdl == InitDb

NextDdl ==
    \/ DdlCreateTable \/ DdlDropTable \/ DdlInsert
    \/ DdlCreateDatabase \/ DdlDropDatabase \/ DdlUseDatabase

SpecDdl == InitDdl /\ [][NextDdl]_vars

\* The result of the storage engine call a DDL plan makes, on the engine
\* the statement found.
StorageResult(op, plan, se, dirs) ==
    CASE op = "CreateTable" -> StorageEngine_create_table(se, plan.name, plan.columns).res
      [] op = "DropTable" -> StorageEngine_drop_table(se, plan.name).res
      [] op = "CreateDatabase" -> StorageEngine_create_database(se, dirs, plan.name).res
      [] op = "UseDatabase" -> StorageEngine_use_database(se, plan.name).res
      [] op = "DropDatabase" ->
            IF plan.name \in DOMAIN se.databases THEN Ok(Unit) ELSE Err("NotFound")

DdlOps == {"CreateTable", "DropTable", "CreateDatabase", "UseDatabase", "DropDatabase"}

\* C25: the executor surfaces an error of the storage engine with its
\* kind unchanged: DROP TABLE of a missing table and USE / DROP DATABASE
\* of a missing database give NotFound.
C25_ErrorKindUnchanged ==
    /\ (last.op \in DdlOps /\ ~IsOk(last.res)) =>
           last.res = StorageResult(last.op, last.args[1], last.before, base_dir)
    /\ (/\ last.op = "DropTable"
        /\ IsOk(StorageEngine_current_database(last.before))
        /\ "t" \notin TablesOf(last.before)) => last.res = Err("NotFound")
    /\ (/\ last.op \in {"UseDatabase", "DropDatabase"}
        /\ last.args[1].name \notin DOMAIN last.before.databases) =>
           last.res = Err("NotFound")

\* The part of C25 that holds: an INSERT surfaces the error of
\* get_table_columns unchanged, NotFound for a missing table.
C25_InsertErrorUnchanged ==
    (/\ last.op = "Insert"
     /\ ~IsOk(StorageEngine_get_table_columns(last.before, "t"))) =>
        last.res = StorageEngine_get_table_columns(last.before, "t")

\* DROP TABLE of a missing table in a selected database.
C25_MissingTableWitness ==
    /\ last.op = "DropTable"
    /\ IsOk(StorageEngine_current_database(last.before))
    /\ "t" \notin TablesOf(last.before)
    /\ last.res = Err("Schema")

(***************************************************************************)
(* SpecShutdown: an engine with the databases default and a, on which      *)
(* tables are created and rows inserted, then saved or dropped.  The big   *)
(* row is one the page accepts twice on its size estimate, which leaves a  *)
(* page image longer than PAGE_SIZE that the disk manager refuses.         *)
(***************************************************************************)
ShutRows == {<<Value_Int(1), Value_String(1)>>, <<Value_Int(1), Value_String(29000)>>}

ShutUseDatabase ==
    /\ pc = "open"
    /\ \E name \in DbNames :
       \E r \in {StorageEngine_use_database(storage, name)} :
          Call(MaxShutSteps, "use_database", <<name>>, r)
    /\ UNCHANGED <<live, n_ins, n_del, memo, snapshot>>

ShutCreateTable ==
    /\ pc = "open"
    /\ \E r \in {StorageEngine_create_table(storage, "t", TestColumns)} :
          Call(MaxShutSteps, "create_table", <<"t">>, r)
    /\ UNCHANGED <<live, n_ins, n_del, memo, snapshot>>

ShutInsertRecord ==
    /\ pc = "open"
    /\ \E values \in ShutRows :
       \E r \in {StorageEngine_insert_record(storage, "t", values)} :
          Call(MaxShutSteps, "insert_record", <<"t", values>>, r)
    /\ UNCHANGED <<live, n_ins, n_del, memo, snapshot>>

ShutSave ==
    /\ pc = "open"
    /\ \E r \in StorageEngine_save(storage) :
          Call(MaxShutSteps, "save", <<>>, r)
    /\ UNCHANGED <<live, n_ins, n_del, memo, snapshot>>

\* The engine value goes out of scope.
ShutDropEngine ==
    /\ pc = "open"
    /\ steps < MaxShutSteps
    /\ \E dirs \in StorageEngine_drop(storage, base_dir) : base_dir' = dirs
    /\ storage' = None
    /\ pc' = "dropped"
    /\ last' = [op |-> "drop", before |-> storage]
    /\ steps' = steps + 1
    /\ UNCHANGED <<live, n_ins, n_del, memo, snapshot, cur_page, fn_in, fn_out, buffer_manager, access>>

InitShutdown ==
    /\ storage = StorageEngine_create_database(
                     StorageEngine_new(<<>>, None),
                     SyncDir(<<>>, StorageEngine_new(<<>>, None)), "a").storage
    /\ base_dir = SyncDir(<<>>, storage)
    /\ pc = "open"
    /\ last = [op |-> "create_database"]
    /\ steps = 0
    /\ live = <<>>
    /\ n_ins = <<>>
    /\ n_del = <<>>
    /\ memo = <<>>
    /\ snapshot = None
    /\ IdlePage
    /\ IdleFn
    /\ IdleBuffer

NextShutdown ==
    ShutUseDatabase \/ ShutCreateTable \/ ShutInsertRecord \/ ShutSave \/ ShutDropEngine

SpecShutdown == InitShutdown /\ [][NextShutdown]_vars

\* The databases whose save fails.
FailingSaves(se) ==
    {n \in DOMAIN se.databases : \A s \in Database_save(se.databases[n]) : ~IsOk(s.res)}

\* The directory of database n holds what a save of the database writes.
SavedOnDisk(se, dirs, n) ==
    \E s \in Database_save(se.databases[n]) : IsOk(s.res) /\ dirs[n] = DirOf(s.db)

\* C26: when the engine is saved or dropped and the save of one database
\* fails, every other database is still saved: its catalog file is
\* written and its dirty pages are flushed.
C26_OtherDatabasesStillSaved ==
    (last.op \in {"save", "drop"} /\ FailingSaves(last.before) # {}) =>
        \A n \in DOMAIN last.before.databases \ FailingSaves(last.before) :
            SavedOnDisk(last.before, base_dir, n)

\* Without a failing database, save and drop leave every database saved.
C26_AllSavedWithoutFailure ==
    (last.op \in {"save", "drop"} /\ FailingSaves(last.before) = {}) =>
        /\ last.op = "save" => IsOk(last.res)
        /\ \A n \in DOMAIN last.before.databases : SavedOnDisk(last.before, base_dir, n)

\* A drop of the engine on which the save of one database failed and the
\* catalog of the other database, which has a table, was not written.
C26_UnsavedWitness ==
    /\ last.op = "drop"
    /\ FailingSaves(last.before) # {}
    /\ \E n \in DOMAIN last.before.databases \ FailingSaves(last.before) :
          /\ last.before.databases[n].catalog # <<>>
          /\ base_dir[n].meta = None

(***************************************************************************)
(* SpecCatalog: one Database value (held in storage, its directory in      *)
(* base_dir) under create_table, drop_table, insert_record, save, load,    *)
(* and a drop of the value followed by Database::new on its directory.     *)
(***************************************************************************)
CatNames == {"t", "u"}

CatCall(op, args, r) ==
    /\ steps < MaxCatSteps
    /\ storage' = r.db
    /\ base_dir' = DirOf(r.db)
    /\ last' = [op |-> op, args |-> args, res |-> r.res, before |-> storage]
    /\ steps' = steps + 1
    /\ UNCHANGED <<pc, live, n_ins, n_del, memo, snapshot, cur_page, fn_in, fn_out, buffer_manager, access>>

CatCreateTable ==
    /\ pc = "open"
    /\ \E name \in CatNames :
       \E r \in {Database_create_table(storage, name, TestColumns)} :
          CatCall("create_table", <<name>>, r)

CatDropTable ==
    /\ pc = "open"
    /\ \E name \in CatNames :
       \E r \in {Database_drop_table(storage, name)} :
          CatCall("drop_table", <<name>>, r)

CatInsertRecord ==
    /\ pc = "open"
    /\ \E name \in CatNames :
       \E values \in ShutRows :
       \E r \in {Database_insert_record(storage, name, values)} :
          CatCall("insert_record", <<name, values>>, r)

CatSave ==
    /\ pc = "open"
    /\ \E r \in Database_save(storage) :
          CatCall("save", <<>>, r)

CatLoad ==
    /\ pc = "open"
    /\ \E r \in {[db |-> Database_load(storage), res |-> Ok(Unit)]} :
          CatCall("load", <<>>, r)

\* The Database value is dropped and Database::new opens its directory.
CatNew ==
    /\ pc = "open"
    /\ \E left \in Database_drop(storage) :
       \E r \in {[db |-> Database_new("d", Some(left)), res |-> Ok(Unit)]} :
          CatCall("new", <<left>>, r)

InitCatalog ==
    /\ storage = Database_new("d", None)
    /\ base_dir = DirOf(storage)
    /\ pc = "open"
    /\ last = [op |-> "new", args |-> <<>>, res |-> Ok(Unit), before |-> storage]
    /\ steps = 0
    /\ live = <<>>
    /\ n_ins = <<>>
    /\ n_del = <<>>
    /\ memo = <<>>
    /\ snapshot = None
    /\ IdlePage
    /\ IdleFn
    /\ IdleBuffer

NextCatalog ==
    CatCreateTable \/ CatDropTable \/ CatInsertRecord \/ CatSave \/ CatLoad \/ CatNew

SpecCatalog == InitCatalog /\ [][NextCatalog]_vars

\* The catalog with the page ids of every table copied into it.
Refreshed(db) ==
    [n \in DOMAIN db.catalog |->
        IF n \in DOMAIN db.tables
        THEN [db.catalog[n] EXCEPT !.page_ids = db.tables[n].page_ids]
        ELSE db.catalog[n]]

DirtyPages(db) ==
    {p \in DOMAIN db.persistence.buffer_manager.pages :
        db.persistence.buffer_manager.pages[p].is_dirty}

C28_CatalogConsistency ==
    /\ DOMAIN storage.tables = DOMAIN storage.catalog
    /\ last.op = "save" =>
           \A n \in DOMAIN storage.tables : storage.catalog[n].page_ids = storage.tables[n].page_ids

\* The part of C28 that holds: every table has a catalog entry, and after
\* a save the catalog holds the page ids of each table.
C28_TablesInCatalog ==
    /\ DOMAIN storage.tables \subseteq DOMAIN storage.catalog
    /\ last.op = "save" =>
           \A n \in DOMAIN storage.tables : storage.catalog[n].page_ids = storage.tables[n].page_ids

\* Database::new on a directory whose catalog file names a table.
C28_NewWitness ==
    /\ last.op = "new"
    /\ storage.tables = <<>>
    /\ storage.catalog # <<>>

(***************************************************************************)
(* SpecPreimage: the record operations of page 0 called with record ids    *)
(* of page 0 and of page 1, on vacant, occupied and missing slots, on a    *)
(* page that is dirty or has been cleaned.                                 *)
(***************************************************************************)
PreRecordIds == {RecordId_new(0, 0), RecordId_new(0, 1), RecordId_new(1, 0)}

PreFieldIndexes == {0, 2}

PreUpdates ==
    {<<<<0, Value_Int(2)>>, <<1, Value_String(600)>>>>,
     <<<<0, Value_Int(2)>>, <<2, Value_Null>>>>,
     <<<<0, Value_Null>>, <<1, Value_String(29500)>>>>}

PreCall(op, args, r) ==
    /\ steps < MaxPreSteps
    /\ cur_page' = r.page
    /\ last' = [op |-> op, args |-> args, res |-> r.res, before |-> cur_page]
    /\ steps' = steps + 1
    /\ UNCHANGED <<storage_vars, fn_in, fn_out, buffer_manager, access>>

PreInsert ==
    \E row \in PageRows :
        PreCall("insert_record", <<row>>, Page_insert_record(cur_page, row))

PreClearDirty ==
    \E r \in {[page |-> Page_clear_dirty(cur_page), res |-> Ok(Unit)]} :
        PreCall("clear_dirty", <<>>, r)

PreDelete ==
    \E id \in PreRecordIds :
        PreCall("delete_record", <<id>>, Page_delete_record(cur_page, id))

PreReplace ==
    \E id \in PreRecordIds : \E row \in PageRows :
        PreCall("replace_record", <<id, row>>, Page_replace_record(cur_page, id, row))

PreUpdateField ==
    \E id \in PreRecordIds : \E field_index \in PreFieldIndexes : \E new_value \in PageValues :
        PreCall("update_field", <<id, field_index, new_value>>,
                Page_update_field(cur_page, id, field_index, new_value))

PreUpdateFields ==
    \E id \in PreRecordIds : \E updates \in PreUpdates :
        PreCall("update_fields", <<id, updates>>, Page_update_fields(cur_page, id, updates))

NextPreimage ==
    PreInsert \/ PreClearDirty \/ PreDelete \/ PreReplace \/ PreUpdateField \/ PreUpdateFields

SpecPreimage == InitPage /\ [][NextPreimage]_vars

\* The record id names no record of the page: another page, a slot past
\* the slot array, or a vacant slot.
NoRecordAt(page, id) ==
    \/ id.page_id # page.id
    \/ id.slot >= Len(page.records)
    \/ page.records[id.slot + 1] = None

\* The record with every assignment of updates made, in order.
RECURSIVE AllAssigned(_, _)
AllAssigned(record, updates) ==
    IF updates = <<>> THEN record
    ELSE AllAssigned([record EXCEPT ![Head(updates)[1] + 1] = Head(updates)[2]], Tail(updates))

\* The record the call would store in the slot.
PostImage(page, op, args) ==
    CASE op = "replace_record" -> args[2]
      [] op = "update_field" ->
            [page.records[args[1].slot + 1][1] EXCEPT ![args[2] + 1] = args[3]]
      [] op = "update_fields" -> AllAssigned(page.records[args[1].slot + 1][1], args[2])

\* A field index of the call lies outside the record.
FieldOutOfRange(page, op, args) ==
    LET n == Len(page.records[args[1].slot + 1][1])
    IN CASE op = "replace_record" -> FALSE
         [] op = "update_field" -> args[2] >= n
         [] op = "update_fields" -> \E k \in DOMAIN args[2] : args[2][k][1] >= n

\* C29: replace_record, update_field and update_fields fail on a record
\* id of another page, on a vacant or out-of-range slot, on a field index
\* out of range and on a post-image that makes the page image longer than
\* PAGE_SIZE; a failed call leaves the slot array and the dirty flag as
\* they were, and a successful call stores the whole post-image in the
\* slot and changes no other slot.
C29_PreImagePreserved ==
    (last.op \in {"replace_record", "update_field", "update_fields"}) =>
        LET before == last.before
            id == last.args[1]
        IN /\ NoRecordAt(before, id) => ~IsOk(last.res)
           /\ (~NoRecordAt(before, id) /\ FieldOutOfRange(before, last.op, last.args)) =>
                 ~IsOk(last.res)
           /\ (/\ ~NoRecordAt(before, id)
               /\ ~FieldOutOfRange(before, last.op, last.args)
               /\ SerializedSize([before.records EXCEPT ![id.slot + 1] =
                                     Some(PostImage(before, last.op, last.args))]) > PAGE_SIZE) =>
                 ~IsOk(last.res)
           /\ ~IsOk(last.res) => cur_page = before
           /\ IsOk(last.res) =>
                 /\ cur_page.records =
                        [before.records EXCEPT ![id.slot + 1] =
                            Some(PostImage(before, last.op, last.args))]
                 /\ cur_page.is_dirty

\* An update_fields whose first assignment is in range and whose second
\* is not, on an occupied slot of a clean page.
C29_Witness ==
    /\ last.op = "update_fields"
    /\ ~NoRecordAt(last.before, last.args[1])
    /\ last.args[2][1][1] < Len(last.before.records[last.args[1].slot + 1][1])
    /\ FieldOutOfRange(last.before, last.op, last.args)
    /\ ~last.before.is_dirty
    /\ ~IsOk(last.res)

\* A replace_record or update_field refused for the size of the page image
\* it would leave.
C29_SizeWitness ==
    /\ last.op \in {"replace_record", "update_field"}
    /\ ~NoRecordAt(last.before, last.args[1])
    /\ ~FieldOutOfRange(last.before, last.op, last.args)
    /\ ~IsOk(last.res)

\* C30: delete_record on a record id of another page, on a slot out of
\* range or on a vacant slot returns an error and leaves the page and its
\* dirty flag as they were; on an occupied slot it vacates the slot, so a
\* second delete of the same id fails unless an insert has reused the slot.
C30_DeleteErrors ==
    (last.op = "delete_record") =>
        IF NoRecordAt(last.before, last.args[1])
        THEN /\ ~IsOk(last.res)
             /\ last.res = IF last.args[1].page_id # last.before.id
                           THEN Err("IO") ELSE Err("NotFound")
             /\ cur_page = last.before
        ELSE /\ IsOk(last.res)
             /\ cur_page.records = [last.before.records EXCEPT ![last.args[1].slot + 1] = None]
             /\ cur_page.is_dirty
             /\ NoRecordAt(cur_page, last.args[1])

\* A second delete of a record id, on a page cleaned since the first.
C30_Witness ==
    /\ last.op = "delete_record"
    /\ last.args[1].page_id = last.before.id
    /\ last.args[1].slot < Len(last.before.records)
    /\ last.before.records[last.args[1].slot + 1] = None
    /\ ~last.before.is_dirty
    /\ last.res = Err("NotFound")

\* A delete with a record id of another page.
C30_WrongPageWitness ==
    /\ last.op = "delete_record"
    /\ last.args[1].page_id # last.before.id
    /\ last.before.records # <<>>
    /\ last.res = Err("IO")

(***************************************************************************)
(* SpecPass: a session that fills table t over two pages, deletes single   *)
(* records, and runs UPDATE and DELETE plans whose SET clause assigns the  *)
(* column the WHERE clause reads.                                          *)
(***************************************************************************)
PassRows ==
    {<<Value_Int(1), Value_String(1)>>,
     <<Value_Int(2), Value_String(1)>>,
     <<Value_Int(2), Value_String(20000)>>}

PassConditions ==
    {None,
     Some(<<"Expression", <<"Binary", "ge", <<"Column", "id">>, <<"Value", Value_Int(2)>>>>>>),
     Some(<<"Expression", <<"Binary", "eq", <<"Column", "id">>, <<"Value", Value_Int(1)>>>>>>)}

PassSetPairs ==
    {<<<<"id", Value_Int(1)>>>>,
     <<<<"id", Value_Int(2)>>>>,
     <<<<"name", Value_String(20000)>>>>}

PassCreateTable == CreateTableOf(MaxPassSteps, "t", TestColumns)

PassInsert == \E values \in PassRows : InsertRecordOf(MaxPassSteps, "t", values)

PassDeleteRecord ==
    \E key \in DOMAIN live : DeleteRecordOf(MaxPassSteps, key[1], key[2])

PassUpdate ==
    /\ pc = "open"
    /\ \E conditions \in PassConditions :
       \E set_pairs \in PassSetPairs :
       \E plan \in {[table_name |-> "t", set_pairs |-> set_pairs,
                      conditions |-> conditions]} :
       \E r \in {Executor_update(storage, plan)} :
          /\ Call(MaxPassSteps, "update", <<plan>>, r)
          /\ live' = <<>>
          /\ memo' = <<>>
          /\ snapshot' = None
          /\ UNCHANGED <<n_ins, n_del>>

PassDelete ==
    /\ pc = "open"
    /\ \E conditions \in PassConditions :
       \E plan \in {[table_name |-> "t", conditions |-> conditions]} :
       \E r \in {Executor_delete(storage, plan)} :
          /\ Call(MaxPassSteps, "delete", <<plan>>, r)
          /\ live' = <<>>
          /\ memo' = <<>>
          /\ snapshot' = None
          /\ UNCHANGED <<n_ins, n_del>>

InitPass == InitSession

NextPass == PassCreateTable \/ PassInsert \/ PassDeleteRecord \/ PassUpdate \/ PassDelete

SpecPass == InitPass /\ [][NextPass]_vars

\* The record with the SET clause applied to it.
Assign(record, set_pairs) ==
    [record EXCEPT !.data = ApplySetPairs(TestColumns, record.data, set_pairs)[2]]

\* C31: an UPDATE or DELETE that succeeds has mutated exactly the records
\* that satisfied its WHERE condition in the table state at the start of
\* the statement (all records without WHERE), also when its own mutations
\* change which records satisfy the condition; one that fails has mutated
\* none of the records outside that set.
C31_TargetsFixedAtStart ==
    (/\ last.op \in {"update", "delete"}
     /\ "t" \in TablesOf(last.before)) =>
        LET plan == last.args[1]
            before == TableRecords(last.before, "t")
            after == TableRecords(storage, "t")
            m == Selected(before, plan.conditions, TestColumns)
        IN /\ (IsOk(last.res) /\ last.op = "update") =>
                  after = [i \in DOMAIN before |->
                              IF before[i] \in Range(m)
                              THEN Assign(before[i], plan.set_pairs) ELSE before[i]]
           /\ (IsOk(last.res) /\ last.op = "delete") =>
                  after = SelectSeq(before, LAMBDA record : record \notin Range(m))
           /\ ~IsOk(last.res) =>
                  \A i \in DOMAIN before :
                      before[i] \notin Range(m) => before[i] \in Range(after)

\* An UPDATE over two matching records succeeded and no record matches its
\* WHERE condition any longer: the assignments changed the matching set
\* during the pass.
C31_Witness ==
    /\ last.op = "update"
    /\ "t" \in TablesOf(last.before)
    /\ IsOk(last.res)
    /\ last.args[1].conditions # None
    /\ Len(Selected(TableRecords(last.before, "t"), last.args[1].conditions, TestColumns)) >= 2
    /\ Selected(TableRecords(storage, "t"), last.args[1].conditions, TestColumns) = <<>>

\* A DELETE over two matching records, with a record that does not match
\* between them in scan order, succeeded.
C31_DeleteWitness ==
    /\ last.op = "delete"
    /\ "t" \in TablesOf(last.before)
    /\ IsOk(last.res)
    /\ Len(Selected(TableRecords(last.before, "t"), last.args[1].conditions, TestColumns)) >= 2
    /\ Len(TableRecords(storage, "t")) >= 1

(***************************************************************************)
(* SpecPlace: a session that inserts rows of three widths into table t and *)
(* deletes live records, on a pool of BUFFER_POOL_SIZE pages: a small row, *)
(* a row that fills most of a page, and a row that no page can hold.       *)
(***************************************************************************)
PlaceRows ==
    {<<Value_Null, Value_String(600)>>,
     <<Value_Null, Value_String(29700)>>,
     <<Value_Null, Value_String(31000)>>}

PlaceCreateTable ==
    /\ "t" \notin TablesOf(storage)
    /\ CreateTableOf(MaxPlaceSteps, "t", TestColumns)

PlaceInsert ==
    /\ "t" \in TablesOf(storage)
    /\ \E values \in PlaceRows : InsertRecordOf(MaxPlaceSteps, "t", values)

PlaceDelete ==
    \E key \in DOMAIN live : DeleteRecordOf(MaxPlaceSteps, key[1], key[2])

InitPlace == InitSession

NextPlace == PlaceCreateTable \/ PlaceInsert \/ PlaceDelete

SpecPlace == InitPlace /\ [][NextPlace]_vars

\* The page chain of table t and the buffer pool of its database.
PageIdsOf(se) == se.databases[CurrentName(se)].tables["t"].page_ids

PoolOf(se) == se.databases[CurrentName(se)].persistence.buffer_manager

\* The positions in the page chain of the pages that accept the row.
Accepting(se, values) ==
    {k \in DOMAIN PageIdsOf(se) :
        Page_can_fit_record(PageView(PoolOf(se), PageIdsOf(se)[k]), values)}

\* The row is the content of the slot the record id names.
PlacedAt(se, record_id, values) ==
    /\ record_id.page_id \in Range(PageIdsOf(se))
    /\ Page_get_record(PageView(PoolOf(se), record_id.page_id), record_id)
          = Ok(Record_with_id(record_id, values))

\* The pages of the chain other than page_id hold what they held before.
OthersUntouched(before, after, page_id) ==
    \A k \in DOMAIN PageIdsOf(before) :
        PageIdsOf(before)[k] # page_id =>
            PageView(PoolOf(after), PageIdsOf(before)[k]).records
               = PageView(PoolOf(before), PageIdsOf(before)[k]).records

\* C32: an insert places the row on the first page of page_ids that
\* accepts it; when no page accepts it, one new page is allocated, its id
\* is appended to page_ids and the row is placed there; page_ids never
\* loses an id.
C32_InsertPlacement ==
    (/\ last.op = "insert_record"
     /\ "t" \in TablesOf(last.before)) =>
        LET values == last.args[2]
            page_ids == PageIdsOf(last.before)
            accepting == Accepting(last.before, values)
            new_page_id == PoolOf(last.before).disk_manager.next_page_id
        IN /\ accepting # {} =>
                 LET first == CHOOSE k \in accepting : \A q \in accepting : k <= q
                 IN /\ IsOk(last.res)
                    /\ last.res[2].page_id = page_ids[first]
                    /\ PlacedAt(storage, last.res[2], values)
                    /\ PageIdsOf(storage) = page_ids
                    /\ OthersUntouched(last.before, storage, page_ids[first])
           /\ accepting = {} =>
                 /\ PageIdsOf(storage) = Append(page_ids, new_page_id)
                 /\ PoolOf(storage).disk_manager.next_page_id = new_page_id + 1
                 /\ IsOk(last.res)
                 /\ last.res[2].page_id = new_page_id
                 /\ PlacedAt(storage, last.res[2], values)

\* The row fits a page that holds no record.
FitsEmptyPage(values) == Page_can_fit_record(Page_new(0), values)

\* C32, for the rows that an empty page accepts; a row that no page can
\* hold returns the refusal of the new page, after the page was appended.
C32_PlacementOfFittingRows ==
    (/\ last.op = "insert_record"
     /\ "t" \in TablesOf(last.before)) =>
        LET values == last.args[2]
            page_ids == PageIdsOf(last.before)
            accepting == Accepting(last.before, values)
            new_page_id == PoolOf(last.before).disk_manager.next_page_id
        IN /\ accepting # {} =>
                 LET first == CHOOSE k \in accepting : \A q \in accepting : k <= q
                 IN /\ IsOk(last.res)
                    /\ last.res[2].page_id = page_ids[first]
                    /\ PlacedAt(storage, last.res[2], values)
                    /\ PageIdsOf(storage) = page_ids
                    /\ OthersUntouched(last.before, storage, page_ids[first])
           /\ accepting = {} =>
                 /\ PageIdsOf(storage) = Append(page_ids, new_page_id)
                 /\ PoolOf(storage).disk_manager.next_page_id = new_page_id + 1
                 /\ FitsEmptyPage(values) =>
                       /\ IsOk(last.res)
                       /\ last.res[2].page_id = new_page_id
                       /\ PlacedAt(storage, last.res[2], values)
                 /\ ~FitsEmptyPage(values) =>
                       /\ last.res = Err("IO")
                       /\ OthersUntouched(last.before, storage, new_page_id)

\* An insert of a row that no page can hold failed and left one more
\* page, without a record, in the page chain.
C32_EmptyPageWitness ==
    /\ last.op = "insert_record"
    /\ "t" \in TablesOf(last.before)
    /\ ~IsOk(last.res)
    /\ Len(PageIdsOf(storage)) = Len(PageIdsOf(last.before)) + 1
    /\ Len(PageIdsOf(last.before)) >= 1

\* An insert skipped a page that refused the row and placed it on a later
\* page of the chain.
C32_SkipWitness ==
    /\ last.op = "insert_record"
    /\ "t" \in TablesOf(last.before)
    /\ IsOk(last.res)
    /\ PageIdsOf(storage) = PageIdsOf(last.before)
    /\ last.res[2].page_id # PageIdsOf(last.before)[1]

(***************************************************************************)
(* SpecOrder: a session that fills table t and runs SELECT * plans whose   *)
(* ORDER BY names columns of the table and a column the table has not.     *)
(***************************************************************************)
OrderRows ==
    {<<Value_Int(1), Value_String(2)>>,
     <<Value_Int(2), Value_String(1)>>,
     <<Value_Int(3), Value_String(1)>>}

OrderLists ==
    {<<OrderItem("nope", "Asc")>>,
     <<OrderItem("id", "Desc")>>,
     <<OrderItem("nope", "Desc"), OrderItem("name", "Asc")>>,
     <<OrderItem("name", "Asc"), OrderItem("nope", "Asc"), OrderItem("id", "Desc")>>}

OrderCreateTable == CreateTableOf(MaxOrderSteps, "t", TestColumns)

OrderInsert == \E values \in OrderRows : InsertRecordOf(MaxOrderSteps, "t", values)

OrderSelect ==
    \E order_items \in OrderLists :
        SelectOf(MaxOrderSteps, [SelectAll("t") EXCEPT !.order_by = Some(order_items)])

InitOrder == InitSession

NextOrder == OrderCreateTable \/ OrderInsert \/ OrderSelect

SpecOrder == InitOrder /\ [][NextOrder]_vars

\* The ORDER BY items that name a column of the table.
KnownItems(order_items, table_columns) ==
    SelectSeq(order_items, LAMBDA order_item : ColumnIndex(table_columns, order_item.column) # 0)

\* C33: a SELECT whose ORDER BY names a column that is not in the table
\* fails with a NotFound error.
C33_OrderByMissingColumn ==
    (/\ last.op = "select"
     /\ "t" \in TablesOf(last.before)
     /\ KnownItems(last.args[1].order_by[1], TestColumns) # last.args[1].order_by[1]) =>
        last.res = Err("NotFound")

\* A SELECT on an existing table succeeds whatever its ORDER BY names, and
\* returns the rows in the order of the items that name a column of the
\* table: the other items are skipped.
C33_MissingColumnSkipped ==
    (/\ last.op = "select"
     /\ "t" \in TablesOf(last.before)) =>
        /\ IsOk(last.res)
        /\ last.res[2].rows =
              RowsOf(sort_records(TableRecords(last.before, "t"),
                                  KnownItems(last.args[1].order_by[1], TestColumns),
                                  TestColumns))

\* A SELECT ordered by a missing column alone returned three rows in scan
\* order, which is not the order of any column.
C33_SkippedWitness ==
    /\ last.op = "select"
    /\ "t" \in TablesOf(last.before)
    /\ last.args[1].order_by[1] = <<OrderItem("nope", "Asc")>>
    /\ IsOk(last.res)
    /\ Len(last.res[2].rows) = 3
    /\ last.res[2].rows = RowsOf(TableRecords(last.before, "t"))

(***************************************************************************)
(* SpecColumns: analyze_column_definitions on one column with every        *)
(* sequence of up to MaxOptions options, and on pairs of columns.          *)
(***************************************************************************)
ColumnOptions == {<<"NotNull">>, <<"Unique", FALSE>>, <<"Unique", TRUE>>, <<"Default">>}

OptionLists == UNION {[1..k -> ColumnOptions] : k \in 0..MaxOptions}

AstDataTypes ==
    {<<"Int", None>>, <<"Integer", Some(11)>>,
     <<"Varchar", None>>, <<"Varchar", Some(<<"IntegerLength", 20>>)>>,
     <<"Varchar", Some(<<"Max">>)>>, <<"Float">>}

AstColumn(name, data_type, options) ==
    [name |-> name, data_type |-> data_type, options |-> options]

AstColumnLists ==
    {<<AstColumn("id", data_type, options)>> :
        data_type \in AstDataTypes, options \in OptionLists}
    \cup {<<AstColumn("id", <<"Int", None>>, first), AstColumn("name", data_type, second)>> :
            first \in {<<<<"Unique", TRUE>>>>, <<<<"Default">>>>},
            data_type \in {<<"Varchar", None>>, <<"Float">>},
            second \in {<<<<"NotNull">>, <<"Unique", FALSE>>>>, <<<<"Unique", TRUE>>, <<"NotNull">>>>}}

InitColumns ==
    /\ IdleStorage
    /\ IdleCall
    /\ IdleBuffer
    /\ IdlePage
    /\ fn_in \in [op : {"none"}, cols : AstColumnLists]
    /\ fn_out = None

AnalyzeColumnDefinitions ==
    /\ fn_in.op = "none"
    /\ fn_in' = [fn_in EXCEPT !.op = "analyze"]
    /\ fn_out' = Some(analyze_column_definitions(fn_in.cols))
    /\ UNCHANGED <<storage_vars, call_vars, cur_page, buffer_manager, access>>

NextColumns == AnalyzeColumnDefinitions

SpecColumns == InitColumns /\ [][NextColumns]_vars

\* C34: every ColumnDef the planner produces satisfies
\* is_primary => (not_null /\ unique).
C34_PrimaryImpliesNotNullUnique ==
    (fn_in.op = "analyze" /\ IsOk(fn_out[1])) =>
        \A c \in DOMAIN fn_out[1][2] :
            fn_out[1][2][c].is_primary =>
                (fn_out[1][2][c].not_null /\ fn_out[1][2][c].unique)

\* A column planned from UNIQUE, NOT NULL, PRIMARY KEY in this order is a
\* primary key.
C34_Witness ==
    /\ fn_in.op = "analyze"
    /\ fn_in.cols[1].options = <<<<"Unique", FALSE>>, <<"NotNull">>, <<"Unique", TRUE>>>>
    /\ IsOk(fn_out[1])
    /\ fn_out[1][2][1].is_primary

\* The options of a column are NOT NULL, UNIQUE and PRIMARY KEY only.
Supported(options) == \A k \in DOMAIN options : options[k] # <<"Default">>

Occurs(options, option) == \E k \in DOMAIN options : options[k] = option

\* C35: the planned ColumnDef has not_null exactly when NOT NULL or
\* PRIMARY KEY occurs among the options, unique exactly when UNIQUE or
\* PRIMARY KEY occurs, and is_primary exactly when PRIMARY KEY occurs,
\* whatever the order of the options.
C35_OrderIndependence ==
    (fn_in.op = "analyze" /\ IsOk(fn_out[1])) =>
        \A c \in DOMAIN fn_out[1][2] :
            LET options == fn_in.cols[c].options
                column == fn_out[1][2][c]
            IN /\ column.not_null =
                     (Occurs(options, <<"NotNull">>) \/ Occurs(options, <<"Unique", TRUE>>))
               /\ column.unique =
                     (Occurs(options, <<"Unique", FALSE>>) \/ Occurs(options, <<"Unique", TRUE>>))
               /\ column.is_primary = Occurs(options, <<"Unique", TRUE>>)

\* The position of the last UNIQUE or PRIMARY KEY option; 0 if none.
LastUnique(options) ==
    IF \E k \in DOMAIN options : options[k][1] = "Unique"
    THEN CHOOSE k \in DOMAIN options :
            /\ options[k][1] = "Unique"
            /\ \A q \in DOMAIN options : options[q][1] = "Unique" => q <= k
    ELSE 0

\* What the planner computes: the last UNIQUE or PRIMARY KEY option decides
\* is_primary and resets not_null, which only a later NOT NULL sets again.
C35_LastUniqueDecides ==
    (fn_in.op = "analyze" /\ IsOk(fn_out[1])) =>
        \A c \in DOMAIN fn_out[1][2] :
            LET options == fn_in.cols[c].options
                column == fn_out[1][2][c]
                u == LastUnique(options)
            IN /\ Supported(options)
               /\ column.unique = (u # 0)
               /\ column.is_primary = (u # 0 /\ options[u][2])
               /\ column.not_null =
                     \/ u # 0 /\ options[u][2]
                     \/ \E k \in DOMAIN options : k > u /\ options[k] = <<"NotNull">>

\* NOT NULL followed by UNIQUE was planned as a nullable column.
C35_ResetWitness ==
    /\ fn_in.op = "analyze"
    /\ fn_in.cols[1].options = <<<<"NotNull">>, <<"Unique", FALSE>>>>
    /\ IsOk(fn_out[1])
    /\ ~fn_out[1][2][1].not_null

(***************************************************************************)
(* SpecCoherence: one BufferManager on a pool of BUFFER_POOL_SIZE pages    *)
(* whose pages are created, read, mutated through get_page_mut (insert of  *)
(* a small or a wide row, delete, replace, update of a field), flushed     *)
(* and evicted.                                                            *)
(***************************************************************************)
CohPageIds == 0..PoolPages

CohWrites ==
    {<<"none">>,
     <<"insert", <<Value_Int(1)>>>>,
     <<"insert", <<Value_String(29500)>>>>,
     <<"delete", 0>>,
     <<"replace", 0, <<Value_Int(2)>>>>,
     <<"update_field", 0, Value_Int(3)>>}

\* What the holder of the &mut Page does with it.
WritePage(page, write) ==
    CASE write[1] = "none" -> page
      [] write[1] = "insert" -> Page_insert_record(page, write[2]).page
      [] write[1] = "delete" -> Page_delete_record(page, RecordId_new(page.id, write[2])).page
      [] write[1] = "replace" ->
            Page_replace_record(page, RecordId_new(page.id, write[2]), write[3]).page
      [] write[1] = "update_field" ->
            Page_update_field(page, RecordId_new(page.id, write[2]), 0, write[3]).page

CohCreatePage ==
    \E r \in {BufferManager_create_page(buffer_manager)} : BufCall("create_page", <<>>, r)

CohGetPage ==
    \E page_id \in CohPageIds :
    \E r \in {BufferManager_get_page(buffer_manager, page_id)} :
        BufCall("get_page", <<page_id>>, r)

CohGetPageMut ==
    \E page_id \in CohPageIds :
    \E write \in CohWrites :
    \E g \in {BufferManager_get_page_mut(buffer_manager, page_id)} :
        BufCall("get_page_mut", <<page_id, write>>,
                IF IsOk(g.res)
                THEN [g EXCEPT !.bm.pages[page_id] = WritePage(g.bm.pages[page_id], write)]
                ELSE g)

CohPinPage ==
    \E page_id \in CohPageIds :
    \E r \in {BufferManager_pin_page(buffer_manager, page_id)} :
        BufCall("pin_page", <<page_id>>, r)

CohUnpinPage ==
    \E page_id \in CohPageIds :
    \E r \in {[bm |-> BufferManager_unpin_page(buffer_manager, page_id), res |-> Ok(Unit)]} :
        BufCall("unpin_page", <<page_id>>, r)

CohFlushPage ==
    \E page_id \in CohPageIds :
    \E r \in {BufferManager_flush_page(buffer_manager, page_id)} :
        BufCall("flush_page", <<page_id>>, r)

CohFlushAllPages ==
    \E r \in BufferManager_flush_all_pages(buffer_manager) :
        BufCall("flush_all_pages", <<>>, r)

InitCoherence == InitBuffer

NextCoherence ==
    \/ CohCreatePage
    \/ CohGetPage
    \/ CohGetPageMut
    \/ CohPinPage
    \/ CohUnpinPage
    \/ CohFlushPage
    \/ CohFlushAllPages

SpecCoherence == InitCoherence /\ [][NextCoherence]_vars

\* The slot array the data file holds for a page: the decoding of its
\* image.
OnDisk(bm, page_id) == Page_from_data(page_id, bm.disk_manager.file[page_id + 1]).records

\* C36: a cached page whose dirty flag is clear has the slot array that
\* its on-disk image decodes to, and a page that a call evicted has an
\* on-disk image that decodes to the slot array it had in the cache.
C36_CacheCoherence ==
    /\ \A id \in Cached(buffer_manager) :
          ~buffer_manager.pages[id].is_dirty =>
              /\ id < Len(buffer_manager.disk_manager.file)
              /\ OnDisk(buffer_manager, id) = buffer_manager.pages[id].records
    /\ last.op # "none" =>
          \A id \in Evicted :
              /\ id < Len(buffer_manager.disk_manager.file)
              /\ OnDisk(buffer_manager, id) = last.before.pages[id].records

\* A call evicted a dirty page that held a record.
C36_Witness ==
    /\ last.op # "none"
    /\ \E id \in Evicted :
          /\ last.before.pages[id].is_dirty
          /\ Page_get_record_count(last.before.pages[id]) > 0

\* A page that was mutated and evicted is cached again, clean, with its
\* record.
C36_ReloadWitness ==
    /\ last.op = "get_page"
    /\ IsOk(last.res)
    /\ last.args[1] \notin Cached(last.before)
    /\ ~buffer_manager.pages[last.args[1]].is_dirty
    /\ Page_get_record_count(buffer_manager.pages[last.args[1]]) > 0

(***************************************************************************)
(* SpecLru: one BufferManager on a pool of BUFFER_POOL_SIZE pages whose    *)
(* pages are created, read, pinned and unpinned.                           *)
(***************************************************************************)
LruPageIds == 0..PoolPages

LruCall(op, args, r) ==
    /\ steps < MaxLruSteps
    /\ buffer_manager' = r.bm
    /\ last' = [op |-> op, args |-> args, res |-> r.res, before |-> buffer_manager,
                accessed |-> access]
    /\ steps' = steps + 1
    /\ access' = IF op \in {"get_page", "create_page"} /\ IsOk(r.res)
                 THEN Append(Retain(access, r.res[2]), r.res[2])
                 ELSE access
    /\ UNCHANGED <<storage_vars, cur_page, fn_in, fn_out>>

LruCreatePage ==
    \E r \in {BufferManager_create_page(buffer_manager)} : LruCall("create_page", <<>>, r)

LruGetPage ==
    \E page_id \in LruPageIds :
    \E r \in {BufferManager_get_page(buffer_manager, page_id)} :
        LruCall("get_page", <<page_id>>, r)

LruPinPage ==
    \E page_id \in LruPageIds :
    \E r \in {BufferManager_pin_page(buffer_manager, page_id)} :
        LruCall("pin_page", <<page_id>>, r)

LruUnpinPage ==
    \E page_id \in LruPageIds :
    \E r \in {[bm |-> BufferManager_unpin_page(buffer_manager, page_id), res |-> Ok(Unit)]} :
        LruCall("unpin_page", <<page_id>>, r)

InitLru == InitBuffer

NextLru == LruCreatePage \/ LruGetPage \/ LruPinPage \/ LruUnpinPage

SpecLru == InitLru /\ [][NextLru]_vars

\* C37: the LRU list holds each cached page id exactly once and no other
\* id, and a call that has to make room evicts a page whenever a cached
\* page is unpinned.
C37_LruBookkeeping ==
    /\ Range(buffer_manager.lru_list) = Cached(buffer_manager)
    /\ Len(buffer_manager.lru_list) = Cardinality(Cached(buffer_manager))
    /\ (NeedsRoom /\ Cached(last.before) \ last.before.pinned_pages # {}) => Evicted # {}

\* The second half of C37 alone: a call that has to make room evicts a
\* page whenever a cached page is unpinned.
C37_EvictionSucceeds ==
    (NeedsRoom /\ Cached(last.before) \ last.before.pinned_pages # {}) => Evicted # {}

\* What the code keeps: the LRU list holds no id twice and only cached
\* ids, and a call that has to make room evicts a page whenever a page of
\* the LRU list is unpinned.
C37_LruListsAccessedPages ==
    /\ Range(buffer_manager.lru_list) \subseteq Cached(buffer_manager)
    /\ Len(buffer_manager.lru_list) = Cardinality(Range(buffer_manager.lru_list))
    /\ (NeedsRoom /\ Range(last.before.lru_list) \ last.before.pinned_pages # {}) =>
          Evicted # {}

\* A create_page failed on a full pool that held an unpinned page: the
\* page had entered the cache through pin_page and was unpinned since.
C37_UnpinnedWitness ==
    /\ NeedsRoom
    /\ last.op = "create_page"
    /\ Cached(last.before) \ last.before.pinned_pages # {}
    /\ ~IsOk(last.res)
    /\ Evicted = {}

\* C38: a create_page that fails leaves the disk manager's next page id
\* and the length of the data file as they were before the call.
C38_FailedCreateConsumesNothing ==
    (last.op = "create_page" /\ ~IsOk(last.res)) =>
        /\ buffer_manager.disk_manager.next_page_id = last.before.disk_manager.next_page_id
        /\ Len(buffer_manager.disk_manager.file) = Len(last.before.disk_manager.file)

\* What the code does: a create_page that fails for want of an evictable
\* page has taken the next page id and written its empty page to the data
\* file, and no cache entry holds that id.
C38_FailedCreateTakesAnId ==
    (last.op = "create_page" /\ ~IsOk(last.res)) =>
        /\ buffer_manager.disk_manager.next_page_id
              = last.before.disk_manager.next_page_id + 1
        /\ Len(buffer_manager.disk_manager.file)
              = last.before.disk_manager.next_page_id + 1
        /\ last.before.disk_manager.next_page_id \notin Cached(buffer_manager)
        /\ buffer_manager.pages = last.before.pages

\* A second create_page in a row failed on a pool of pinned pages: two
\* page ids are allocated that nothing refers to.
C38_LeakWitness ==
    /\ last.op = "create_page"
    /\ ~IsOk(last.res)
    /\ buffer_manager.disk_manager.next_page_id > Cardinality(Cached(buffer_manager)) + 1

(***************************************************************************)
(* SpecReopen: a session that creates and drops databases, fills table t,  *)
(* saves, and whose engine is dropped and constructed again on the same    *)
(* base_dir.  last.dropped is the set of the names that drop_database      *)
(* removed and that no create_database or construction has created since.  *)
(***************************************************************************)
ReopenCall(op, args, r, dirs, dropped) ==
    /\ pc = "open"
    /\ steps < MaxReopenSteps
    /\ storage' = r.storage
    /\ base_dir' = SyncDir(dirs, r.storage)
    /\ last' = [op |-> op, args |-> args, res |-> r.res, before |-> storage,
                dropped |-> dropped]
    /\ steps' = steps + 1
    /\ UNCHANGED <<pc, live, n_ins, n_del, memo, snapshot, cur_page, fn_in, fn_out, buffer_manager, access>>

ReopenCreateDatabase ==
    /\ pc = "open"
    /\ \E name \in DbNames :
       \E r \in {StorageEngine_create_database(storage, base_dir, name)} :
          ReopenCall("create_database", <<name>>, r, base_dir,
                     IF IsOk(r.res) THEN last.dropped \ {name} ELSE last.dropped)

ReopenDropDatabase ==
    /\ pc = "open"
    /\ \E name \in DbNames :
       \E r \in StorageEngine_drop_database(storage, base_dir, name) :
          ReopenCall("drop_database", <<name>>, r, r.dirs,
                     IF IsOk(r.res) THEN last.dropped \cup {name} ELSE last.dropped)

ReopenCreateTable ==
    /\ pc = "open"
    /\ ReopenCall("create_table", <<"t">>, StorageEngine_create_table(storage, "t", TestColumns),
                  base_dir, last.dropped)

ReopenInsertRecord ==
    /\ pc = "open"
    /\ ReopenCall("insert_record", <<"t">>, StorageEngine_insert_record(storage, "t", DbRow),
                  base_dir, last.dropped)

ReopenSave ==
    /\ pc = "open"
    /\ \E r \in StorageEngine_save(storage) :
          ReopenCall("save", <<>>, r, base_dir, last.dropped)

\* The engine value goes out of scope.
ReopenDropEngine ==
    /\ pc = "open"
    /\ steps < MaxReopenSteps
    /\ \E dirs \in StorageEngine_drop(storage, base_dir) : base_dir' = dirs
    /\ storage' = None
    /\ pc' = "dropped"
    /\ last' = [op |-> "drop", dropped |-> last.dropped]
    /\ steps' = steps + 1
    /\ UNCHANGED <<live, n_ins, n_del, memo, snapshot, cur_page, fn_in, fn_out, buffer_manager, access>>

\* StorageEngine::new(Some(base_dir), db_name) on the files left.
ReopenOpenEngine ==
    /\ pc = "dropped"
    /\ steps < MaxReopenSteps
    /\ \E db_name \in StartNames :
          /\ storage' = StorageEngine_new(base_dir, db_name)
          /\ last' = [op |-> "new", args |-> <<db_name>>, dirs |-> base_dir,
                      dropped |-> last.dropped \ {unwrap_or(db_name, DEFAULT_DB_NAME)}]
    /\ base_dir' = SyncDir(base_dir, storage')
    /\ pc' = "open"
    /\ steps' = steps + 1
    /\ UNCHANGED <<live, n_ins, n_del, memo, snapshot, cur_page, fn_in, fn_out, buffer_manager, access>>

InitReopen ==
    /\ \E db_name \in StartNames :
          /\ storage = StorageEngine_new(<<>>, db_name)
          /\ last = [op |-> "new", args |-> <<db_name>>, dirs |-> <<>>, dropped |-> {}]
    /\ base_dir = SyncDir(<<>>, storage)
    /\ pc = "open"
    /\ steps = 0
    /\ live = <<>>
    /\ n_ins = <<>>
    /\ n_del = <<>>
    /\ memo = <<>>
    /\ snapshot = None
    /\ IdlePage
    /\ IdleFn
    /\ IdleBuffer

NextReopen ==
    \/ ReopenCreateDatabase
    \/ ReopenDropDatabase
    \/ ReopenCreateTable
    \/ ReopenInsertRecord
    \/ ReopenSave
    \/ ReopenDropEngine
    \/ ReopenOpenEngine

SpecReopen == InitReopen /\ [][NextReopen]_vars

\* C39: an engine constructed on the base_dir does not contain a database
\* that drop_database removed, unless it is the database the construction
\* was asked to open or create.
C39_DroppedStaysDropped ==
    (pc = "open" /\ last.op = "new") =>
        \A n \in last.dropped : n \notin DOMAIN storage.databases

\* What the code does: drop_database leaves the directory of the database
\* under base_dir, and a construction loads every directory it finds
\* there, and creates the database it was asked for when it is missing.
C39_DirectoriesDecide ==
    /\ (last.op = "drop_database" /\ IsOk(last.res)) =>
          /\ last.args[1] \notin DOMAIN storage.databases
          /\ last.args[1] \in DOMAIN base_dir
    /\ (pc = "open" /\ last.op = "new") =>
          DOMAIN storage.databases
             = DOMAIN last.dirs \cup {unwrap_or(last.args[1], DEFAULT_DB_NAME)}

\* An engine constructed without a name contains database "a", which the
\* engine before it had dropped, with the table that was saved in it.
C39_ResurrectedWitness ==
    /\ pc = "open"
    /\ last.op = "new"
    /\ last.args[1] = None
    /\ "a" \in last.dropped
    /\ "a" \in DOMAIN storage.databases
    /\ "t" \in DOMAIN storage.databases["a"].catalog

(***************************************************************************)
(* Value arithmetic (storage/table/value.rs).  i32 is scaled to IntBits    *)
(* bits.  The operators +, -, * and unary - of i32 panic on overflow in a  *)
(* build with overflow checks and wrap in a build without them, so each    *)
(* operation yields the set of the results the builds can produce; / and % *)
(* panic on overflow in every build.  The Float arms are left out: the     *)
(* operands are Int, Null and String values.                               *)
(***************************************************************************)
I32_MAX == 2 ^ (IntBits - 1) - 1

I32_MIN == -(2 ^ (IntBits - 1))

InI32(x) == I32_MIN <= x /\ x <= I32_MAX

wrapping(x) == ((x - I32_MIN) % (2 ^ IntBits)) + I32_MIN

\* The results of an i32 operation whose mathematical result is x.
I32Op(x) ==
    IF InI32(x)
    THEN {Ok(Value_Int(x))}
    ELSE {<<"Panic", "overflow">>, Ok(Value_Int(wrapping(x)))}

Magnitude(x) == IF x < 0 THEN -x ELSE x

\* Division of i32 truncates towards zero.
I32Div(a, b) ==
    IF (a < 0) = (b < 0)
    THEN Magnitude(a) \div Magnitude(b)
    ELSE -(Magnitude(a) \div Magnitude(b))

\* The remainder has the sign of the dividend.
I32Rem(a, b) == a - b * I32Div(a, b)

IsInt(v) == v[1] = "Int"

Value_add(a, b) ==
    IF IsInt(a) /\ IsInt(b) THEN I32Op(a[2] + b[2]) ELSE {Err("Execution")}

Value_subtract(a, b) ==
    IF IsInt(a) /\ IsInt(b) THEN I32Op(a[2] - b[2]) ELSE {Err("Execution")}

Value_multiply(a, b) ==
    IF IsInt(a) /\ IsInt(b) THEN I32Op(a[2] * b[2]) ELSE {Err("Execution")}

Value_divide(a, b) ==
    IF IsInt(a) /\ IsInt(b)
    THEN IF b[2] = 0 THEN {Err("Execution")}
         ELSE IF a[2] = I32_MIN /\ b[2] = -1 THEN {<<"Panic", "overflow">>}
         ELSE {Ok(Value_Int(I32Div(a[2], b[2])))}
    ELSE {Err("Execution")}

Value_modulo(a, b) ==
    IF IsInt(a) /\ IsInt(b)
    THEN IF b[2] = 0 THEN {Err("Execution")}
         ELSE IF a[2] = I32_MIN /\ b[2] = -1 THEN {<<"Panic", "overflow">>}
         ELSE {Ok(Value_Int(I32Rem(a[2], b[2])))}
    ELSE {Err("Execution")}

Value_negate(a) ==
    IF IsInt(a) THEN I32Op(-a[2]) ELSE {Err("Execution")}

(***************************************************************************)
(* SpecArith: each operation on every pair of operands.                    *)
(***************************************************************************)
ArithValues == {Value_Int(i) : i \in I32_MIN..I32_MAX} \cup {Value_Null, Value_String(1)}

InitArith ==
    /\ IdleStorage
    /\ IdleCall
    /\ IdleBuffer
    /\ IdlePage
    /\ fn_in \in [op : {"none"}, a : ArithValues, b : ArithValues]
    /\ fn_out = None

ArithCall(op, results) ==
    /\ fn_in.op = "none"
    /\ fn_in' = [fn_in EXCEPT !.op = op]
    /\ \E r \in results : fn_out' = Some(r)
    /\ UNCHANGED <<storage_vars, call_vars, cur_page, buffer_manager, access>>

ArithAdd == ArithCall("add", Value_add(fn_in.a, fn_in.b))

ArithSubtract == ArithCall("subtract", Value_subtract(fn_in.a, fn_in.b))

ArithMultiply == ArithCall("multiply", Value_multiply(fn_in.a, fn_in.b))

ArithDivide == ArithCall("divide", Value_divide(fn_in.a, fn_in.b))

ArithModulo == ArithCall("modulo", Value_modulo(fn_in.a, fn_in.b))

ArithNegate == ArithCall("negate", Value_negate(fn_in.a))

NextArith ==
    \/ ArithAdd
    \/ ArithSubtract
    \/ ArithMultiply
    \/ ArithDivide
    \/ ArithModulo
    \/ ArithNegate

SpecArith == InitArith /\ [][NextArith]_vars

\* The mathematical result of the operation of fn_in on integers.
Exact ==
    CASE fn_in.op = "add" -> fn_in.a[2] + fn_in.b[2]
      [] fn_in.op = "subtract" -> fn_in.a[2] - fn_in.b[2]
      [] fn_in.op = "multiply" -> fn_in.a[2] * fn_in.b[2]
      [] fn_in.op = "divide" -> I32Div(fn_in.a[2], fn_in.b[2])
      [] fn_in.op = "modulo" -> I32Rem(fn_in.a[2], fn_in.b[2])
      [] fn_in.op = "negate" -> -fn_in.a[2]

IntOperands ==
    /\ fn_in.op # "none"
    /\ IsInt(fn_in.a)
    /\ fn_in.op # "negate" => IsInt(fn_in.b)

ZeroDivisor == fn_in.op \in {"divide", "modulo"} /\ fn_in.b[2] = 0

\* C40: on integer operands every arithmetic operation returns Value::Int
\* of the mathematically exact result, or an Execution error for a
\* division or modulo by zero; it never panics and never wraps.
C40_TotalAndExact ==
    IntOperands =>
        IF ZeroDivisor
        THEN fn_out[1] = Err("Execution")
        ELSE fn_out[1] = Ok(Value_Int(Exact))

DivideOverflow ==
    fn_in.op \in {"divide", "modulo"} /\ fn_in.a[2] = I32_MIN /\ fn_in.b[2] = -1

\* What the code does: I32_MIN divided by -1 panics, and so does its
\* remainder; any other result is exact when it fits i32; when it does
\* not, the operation panics or returns the result wrapped to the width.
C40_ExactWhenInRange ==
    (IntOperands /\ ~ZeroDivisor) =>
        IF DivideOverflow
        THEN IsPanic(fn_out[1])
        ELSE IF InI32(Exact)
        THEN fn_out[1] = Ok(Value_Int(Exact))
        ELSE \/ IsPanic(fn_out[1])
             \/ fn_out[1] = Ok(Value_Int(wrapping(Exact)))

\* I32_MAX + 1 has returned I32_MIN.
C40_WrapWitness ==
    /\ fn_in.op = "add"
    /\ fn_in.a = Value_Int(I32_MAX)
    /\ fn_in.b = Value_Int(1)
    /\ fn_out[1] = Ok(Value_Int(I32_MIN))

\* I32_MIN / -1 has panicked.
C40_DivideWitness ==
    /\ fn_in.op = "divide"
    /\ fn_in.a = Value_Int(I32_MIN)
    /\ fn_in.b = Value_Int(-1)
    /\ IsPanic(fn_out[1])

====
